---- MODULE Spec2Model ----
(***************************************************************************)
(* Model of the delivery-route application Kamchion/app-rutas.             *)
(*                                                                         *)
(*   - the distance engine and the route sequencer of                      *)
(*     services/routeOptimizer (src/unnamed/part_001);                     *)
(*   - the navigation progress tracker of screens/RouteMapScreen.tsx;      *)
(*   - the functions of services/directionsService.ts;                     *)
(*   - the location tracker (src/unnamed/part_002) and the token of        *)
(*     services/apiService.ts.                                             *)
(*                                                                         *)
(* Numbers.  The code computes on IEEE doubles.  Here an angle in radians  *)
(* and a trigonometric value are integers in units of 1/Scale, and a       *)
(* distance is an integer in units of 1/Scale km.  Coordinates are whole   *)
(* degrees.  Arrays are 1-based, so an index of the model is the code's    *)
(* index plus one.                                                         *)
(***************************************************************************)
EXTENDS Integers, Sequences, FiniteSets, TLC

VARIABLES
    \* ---- one call of a routeOptimizer function ----
    arrays,          \* the array objects alive during the call, by reference
    input,           \* the contents of the caller's array when the call began
    startLocation,   \* the optional argument: << >> (undefined) or <<location>>
    pc,              \* position of the call
    locals,          \* optimizeRoute: its locals `unvisited` (a reference) and
                     \* `currentLocation`, and the number of splice calls made
    ret,             \* optimizeRoute: the reference returned
    total,           \* calculateTotalDistance: the number returned
    url,             \* generateGoogleMapsUrl: the string returned, as tokens
    \* ---- RouteMapScreen: its state hooks ----
    route,                \* route (its status)
    stops,
    optimizedStops,
    currentLocation,      \* << >> (null) or <<location>>
    loading,
    isOptimized,
    isNavigating,
    currentStopIndex,     \* 0-based, as in the code
    locationSubscription, \* 0 (null) or the id of a subscription
    \* ---- RouteMapScreen: its environment ----
    mounted,         \* the screen is on display
    alerts,          \* the alerts on display, the latest last (on top)
    tasks,           \* the asynchronous calls that have not resumed yet
    server,          \* the route repository: route status and stops
    watchers,        \* position subscriptions: number created, ids alive
    session,         \* number of startInternalNavigation calls so far
    \* ---- calls of the core operations, each on its own input ----
    position,        \* findCurrentStep: the argument currentLocation
    steps,           \* findCurrentStep: the argument steps
    encoded,         \* decodePolyline: the argument, as character codes
    calls,           \* by operation: << >>, or <<value returned>>
    \* ---- getManeuverIcon ----
    maneuver,        \* the optional argument
    icon,            \* << >>, or <<value returned>>
    \* ---- calculateDistance of routeOptimizer ----
    endpoints,       \* the two points given
    measured,        \* << >>, or <<distance returned>>
    \* ---- LocationTracker, ApiService (the token), decodePolyline by steps ----
    tracker,         \* LocationTracker: its fields, the platform, its calls
    auth,            \* ApiService: token, the store, the calls under way
    decoder          \* decodePolyline: its locals and its position

coreVars == <<arrays, input, startLocation, pc, locals, ret, total, url>>
hookVars == <<route, stops, optimizedStops, currentLocation, loading, isOptimized,
              isNavigating, currentStopIndex, locationSubscription>>
screenVars == <<hookVars, mounted, alerts, tasks, server, watchers, session>>
unitVars == <<maneuver, icon, endpoints, measured, tracker, auth, decoder>>
serviceVars == <<position, steps, encoded, calls, unitVars>>
vars == <<coreVars, screenVars, serviceVars>>

(***************************************************************************)
(* Bounds of the model.                                                    *)
(***************************************************************************)
MaxStops == 4
MaxLinkStops == 12
MaxRouteStops == 3
MaxAlerts == 2
MaxSteps == 3
MaxEncodedLength == 4
MaxListStops == 2
MaxTrackerCalls == 2
MaxSubscriptions == 2

(***************************************************************************)
(* Fixed-point arithmetic standing for the doubles of the code.            *)
(***************************************************************************)
Scale == 10000
MathPI == 31416
Infinity == 2147483647

TruncDiv(a, b) == IF a >= 0 THEN a \div b ELSE -((-a) \div b)
FixMul(a, b) == TruncDiv(a * b, Scale)

\* Binary search of the integer square root.  (A value is bound through a
\* one-element set where it is used more than once, so that it is computed
\* once.)
RECURSIVE SqrtSearch(_, _, _)
SqrtSearch(n, lo, hi) ==
    IF hi - lo <= 1 THEN lo
    ELSE CHOOSE r \in {IF mid * mid <= n THEN SqrtSearch(n, mid, hi)
                                         ELSE SqrtSearch(n, lo, mid) :
                           mid \in {(lo + hi) \div 2}} : TRUE

\* Math.sqrt of a value in units of 1/Scale^2, result in units of 1/Scale.
MathSqrt(n) == CHOOSE r \in {SqrtSearch(v, 0, 2 * Scale) : v \in {n}} : TRUE

\* Math.sin and Math.cos by their Taylor series (|r| <= Scale, i.e. 1 rad).
MathSin(r) ==
    LET r2 == FixMul(r, r)
        t3 == TruncDiv(FixMul(r, r2), 6)
        t5 == TruncDiv(FixMul(t3, r2), 20)
        t7 == TruncDiv(FixMul(t5, r2), 42)
    IN  r - t3 + t5 - t7

MathCos(r) ==
    LET r2 == FixMul(r, r)
        t2 == TruncDiv(r2, 2)
        t4 == TruncDiv(FixMul(t2, r2), 12)
        t6 == TruncDiv(FixMul(t4, r2), 30)
        t8 == TruncDiv(FixMul(t6, r2), 56)
    IN  Scale - t2 + t4 - t6 + t8

AtanSeries(t) ==
    LET t2 == FixMul(t, t)
        p3 == FixMul(t, t2)
        p5 == FixMul(p3, t2)
        p7 == FixMul(p5, t2)
        p9 == FixMul(p7, t2)
    IN  t - TruncDiv(p3, 3) + TruncDiv(p5, 5) - TruncDiv(p7, 7) + TruncDiv(p9, 9)

\* The angle measured from the other axis: Math.atan2(x, y).
MathAtan2_Swapped(y, x) ==
    IF x = 0 THEN 0
    ELSE IF y >= x THEN AtanSeries(TruncDiv(x * Scale, y))
    ELSE TruncDiv(MathPI, 2) - AtanSeries(TruncDiv(y * Scale, x))

\* Math.atan2(y, x) for y >= 0 and x >= 0, the only case calculateDistance uses.
MathAtan2(y, x) ==
    CHOOSE r \in {IF v[1] = 0 THEN 0
                  ELSE IF v[2] >= v[1] THEN AtanSeries(TruncDiv(v[1] * Scale, v[2]))
                  ELSE TruncDiv(MathPI, 2) - AtanSeries(TruncDiv(v[2] * Scale, v[1])) :
                      v \in {<<y, x>>}} : TRUE

\* deg * Math.PI / 180
ToRadians(deg) == TruncDiv(deg * MathPI, 180)

(***************************************************************************)
(* Distance engine: calculateDistance (haversine), in units of 1/Scale km. *)
(***************************************************************************)
R == 6371

calculateDistance(lat1, lon1, lat2, lon2) ==
    LET dLat == ToRadians(lat2 - lat1)
        dLon == ToRadians(lon2 - lon1)
        a == MathSin(TruncDiv(dLat, 2)) * MathSin(TruncDiv(dLat, 2))
             + FixMul(FixMul(MathCos(ToRadians(lat1)), MathCos(ToRadians(lat2))),
                      MathSin(TruncDiv(dLon, 2)))
               * MathSin(TruncDiv(dLon, 2))
        c == 2 * MathAtan2(MathSqrt(a), MathSqrt(Scale * Scale - a))
    IN  R * c

(***************************************************************************)
(* Data: Location and RouteStop (the fields the optimizer reads).          *)
(***************************************************************************)
Location(lat, lng) == [latitude |-> lat, longitude |-> lng]
LocationOf(stop) == Location(stop.latitude, stop.longitude)
RouteStop(id, lat, lng) == [id |-> id, latitude |-> lat, longitude |-> lng]

\* A splice that always removes the first element.
SpliceOut_First(s, index) == Tail(s)

\* Array.prototype.splice(index, 1) on a 1-based sequence: what is left.
SpliceOut(s, index) == [i \in 1..(Len(s) - 1) |-> IF i < index THEN s[i] ELSE s[i + 1]]


(***************************************************************************)
(* Route sequencer: optimizeRoute (greedy nearest neighbour).              *)
(***************************************************************************)

\* The array objects of a call: the caller's `stops` and the two arrays
\* optimizeRoute creates.
NewArrays(stopsSeq) == [stops |-> stopsSeq, unvisited |-> << >>, optimized |-> << >>]

\* `stops.length < 1` in place of `stops.length <= 1`.
ReturnsEarly_OnlyEmpty(stopsSeq) == Len(stopsSeq) < 1

\* `if (stops.length <= 1) return stops;`
ReturnsEarly(stopsSeq) == Len(stopsSeq) <= 1

\* `const unvisited = stops`: no copy, the same array.
SpreadOf_Alias(ref) == ref

\* `[...stops]`: the reference of the array the spread creates.
SpreadOf(ref) == "unvisited"

\* A start location that is never used.
StartOrFirst_IgnoresStart(stopsSeq, start) == LocationOf(stopsSeq[1])

\* `startLocation || { latitude: stops[0].latitude, longitude: stops[0].longitude }`
StartOrFirst(stopsSeq, start) ==
    IF start # << >> THEN start[1] ELSE LocationOf(stopsSeq[1])

\* `<=` in place of `<`: the last of several nearest stops wins.
IsNearer_OrEqual(distance, nearestDistance) == distance <= nearestDistance

\* `if (distance < nearestDistance)`
IsNearer(distance, nearestDistance) == distance < nearestDistance

\* The forEach over `unvisited`: nearestIndex after the callback has run for
\* every element from `index` on.
RECURSIVE ScanNearest(_, _, _, _, _)
ScanNearest(pool, current, index, nearestIndex, nearestDistance) ==
    IF index > Len(pool) THEN nearestIndex
    ELSE LET distance == calculateDistance(current.latitude, current.longitude,
                                           pool[index].latitude, pool[index].longitude)
         IN  IF IsNearer(distance, nearestDistance)
             THEN ScanNearest(pool, current, index + 1, index, distance)
             ELSE ScanNearest(pool, current, index + 1, nearestIndex, nearestDistance)

\* `let nearestIndex = 0; let nearestDistance = Infinity;` and the scan.
FindNearest(pool, current) == ScanNearest(pool, current, 1, 1, Infinity)

\* The locals of optimizeRoute before the loop.
optimizeRouteBegin(arr, start) ==
    LET u == SpreadOf("stops")
    IN  [arrays |-> [[arr EXCEPT ![u] = arr.stops] EXCEPT !.optimized = << >>],
         unvisited |-> u,
         currentLocation |-> StartOrFirst(arr.stops, start),
         removals |-> 0]

\* One iteration of `while (unvisited.length > 0)`.
optimizeRouteIterate(m) ==
    LET pool == m.arrays[m.unvisited]
        nearestIndex == FindNearest(pool, m.currentLocation)
        nearest == pool[nearestIndex]
        spliced == [m.arrays EXCEPT ![m.unvisited] = SpliceOut(pool, nearestIndex)]
    IN  [arrays |-> [spliced EXCEPT !.optimized = Append(@, nearest)],
         unvisited |-> m.unvisited,
         currentLocation |-> LocationOf(nearest),
         removals |-> m.removals + 1]

RECURSIVE optimizeRouteLoop(_)
optimizeRouteLoop(m) ==
    IF Len(m.arrays[m.unvisited]) > 0 THEN optimizeRouteLoop(optimizeRouteIterate(m))
    ELSE m

\* optimizeRoute as a function of its arguments: the contents of the array
\* it returns.
optimizeRoute(stopsSeq, start) ==
    IF ReturnsEarly(stopsSeq) THEN stopsSeq
    ELSE optimizeRouteLoop(optimizeRouteBegin(NewArrays(stopsSeq), start)).arrays.optimized

(***************************************************************************)
(* calculateTotalDistance.                                                 *)
(***************************************************************************)
\* `current` never moves on.
NextCurrent_Stale(current, stop) == current

\* `current = { latitude: stop.latitude, longitude: stop.longitude }`
NextCurrent(current, stop) == LocationOf(stop)

\* The forEach over `stops`: total after the callback has run for every
\* element from `index` on.
RECURSIVE TotalFrom(_, _, _, _)
TotalFrom(stopsSeq, index, current, sum) ==
    IF index > Len(stopsSeq) THEN sum
    ELSE TotalFrom(stopsSeq, index + 1, NextCurrent(current, stopsSeq[index]),
                   sum + calculateDistance(current.latitude, current.longitude,
                                           stopsSeq[index].latitude,
                                           stopsSeq[index].longitude))

calculateTotalDistance(stopsSeq, start) ==
    IF Len(stopsSeq) = 0 THEN 0
    ELSE TotalFrom(stopsSeq, 1, StartOrFirst(stopsSeq, start), 0)

(***************************************************************************)
(* Calls of the sequencer on drawn inputs.                                 *)
(***************************************************************************)
\* A(0,0), B(0,10), C(0,30) lie on one line; D(10,0) is as far from A as B is.
SequencerPoints == {<<0, 0>>, <<0, 10>>, <<0, 30>>, <<10, 0>>}
SequencerStarts == {<<0, 0>>, <<10, 10>>}

StopsAt(coords) ==
    [i \in DOMAIN coords |-> RouteStop(i, coords[i][1], coords[i][2])]

MaybeStarts(points) == {<< >>} \cup {<<Location(p[1], p[2])>> : p \in points}

\* No operation has been called.
NoCalls ==
    [optimizeRoute |-> << >>, calculateTotalDistance |-> << >>,
     generateGoogleMapsUrl |-> << >>, findCurrentStep |-> << >>,
     decodePolyline |-> << >>]

\* `maneuver?: string`: undefined, or a string.
Undefined == [given |-> FALSE, text |-> ""]
String(text) == [given |-> TRUE, text |-> text]

\* getManeuverIcon is not called.
NoManeuver ==
    /\ maneuver = Undefined
    /\ icon = << >>

\* calculateDistance is not called on its own.
NoDistance ==
    /\ endpoints = <<Location(0, 0), Location(0, 0)>>
    /\ measured = << >>

\* LocationTracker as constructed: not tracking, no call under way.
NoTracker ==
    tracker = [isTracking |-> FALSE, foregroundSubscription |-> 0,
               live |-> {}, background |-> 0,
               calls |-> [i \in 1..MaxTrackerCalls |-> "idle"]]

\* ApiService as constructed, nothing stored, no call under way.
NoAuth ==
    auth = [token |-> 0, stored |-> 0, cleared |-> FALSE, returned |-> << >>,
            currentScreen |-> "login", calls |-> {}]

\* decodePolyline is not called by steps.
NoDecoder ==
    decoder = [pc |-> "returned", index |-> 0, shift |-> 0, result |-> 0,
               lat |-> 0, lng |-> 0, points |-> << >>]

NoUnits == NoManeuver /\ NoDistance /\ NoTracker /\ NoAuth /\ NoDecoder

\* No argument of findCurrentStep or decodePolyline.
NoArguments ==
    /\ position = Location(0, 0)
    /\ steps = << >>
    /\ encoded = << >>

\* The directions service is not called.
NoService ==
    /\ NoArguments
    /\ calls = NoCalls
    /\ NoUnits

InitCore(stopsSeq, start) ==
    /\ arrays = NewArrays(stopsSeq)
    /\ input = stopsSeq
    /\ startLocation = start
    /\ pc = "ready"
    /\ locals = [unvisited |-> "", currentLocation |-> Location(0, 0), removals |-> 0]
    /\ ret = ""
    /\ total = 0
    /\ url = << >>

InitCall(stopsSeq, start) == InitCore(stopsSeq, start) /\ NoService

\* No screen: the functions of routeOptimizer are called on their own.
NoScreen ==
    /\ route = [status |-> "pending"]
    /\ stops = << >>
    /\ optimizedStops = << >>
    /\ currentLocation = << >>
    /\ loading = TRUE
    /\ isOptimized = FALSE
    /\ isNavigating = FALSE
    /\ currentStopIndex = 0
    /\ locationSubscription = 0
    /\ mounted = FALSE
    /\ alerts = << >>
    /\ tasks = {}
    /\ server = [routeStatus |-> "pending", optimizedOrder |-> << >>,
                 stops |-> << >>]
    /\ watchers = [created |-> 0, live |-> {}]
    /\ session = 0

InitSequencer ==
    /\ NoScreen
    /\ \E n \in 0..MaxStops :
           \E coords \in [1..n -> SequencerPoints] :
               \E start \in MaybeStarts(SequencerStarts) :
                   InitCall(StopsAt(coords), start)

OptimizeRouteReturnsEarly ==
    /\ pc = "ready"
    /\ ReturnsEarly(arrays.stops)
    /\ ret' = "stops"
    /\ pc' = "done"
    /\ UNCHANGED <<arrays, input, startLocation, locals, total, url>>
    /\ UNCHANGED <<screenVars, serviceVars>>

OptimizeRouteBegins ==
    /\ pc = "ready"
    /\ ~ReturnsEarly(arrays.stops)
    /\ LET m == optimizeRouteBegin(arrays, startLocation)
       IN  /\ arrays' = m.arrays
           /\ locals' = [unvisited |-> m.unvisited,
                         currentLocation |-> m.currentLocation,
                         removals |-> m.removals]
    /\ pc' = "loop"
    /\ UNCHANGED <<input, startLocation, ret, total, url>>
    /\ UNCHANGED <<screenVars, serviceVars>>

OptimizeRouteIterates ==
    /\ pc = "loop"
    /\ Len(arrays[locals.unvisited]) > 0
    /\ LET m == optimizeRouteIterate([arrays |-> arrays,
                                      unvisited |-> locals.unvisited,
                                      currentLocation |-> locals.currentLocation,
                                      removals |-> locals.removals])
       IN  /\ arrays' = m.arrays
           /\ locals' = [unvisited |-> m.unvisited,
                         currentLocation |-> m.currentLocation,
                         removals |-> m.removals]
    /\ UNCHANGED <<input, startLocation, pc, ret, total, url>>
    /\ UNCHANGED <<screenVars, serviceVars>>

OptimizeRouteReturns ==
    /\ pc = "loop"
    /\ Len(arrays[locals.unvisited]) = 0
    /\ ret' = "optimized"
    /\ pc' = "done"
    /\ UNCHANGED <<arrays, input, startLocation, locals, total, url>>
    /\ UNCHANGED <<screenVars, serviceVars>>

CalculateTotalDistance ==
    /\ pc = "ready"
    /\ total' = calculateTotalDistance(arrays.stops, startLocation)
    /\ pc' = "totalled"
    /\ UNCHANGED <<arrays, input, startLocation, locals, ret, url>>
    /\ UNCHANGED <<screenVars, serviceVars>>

(***************************************************************************)
(* generateGoogleMapsUrl.  A string is the sequence of its pieces: a       *)
(* literal piece of the template, or a number formatted by `${...}`.       *)
(***************************************************************************)
Text(s) == [kind |-> "text", text |-> s, number |-> 0]
Number(n) == [kind |-> "number", text |-> "", number |-> n]

\* `${p.latitude},${p.longitude}`
LatLng(p) == <<Number(p.latitude), Text(","), Number(p.longitude)>>

\* Array.prototype.slice(begin, end) with the code's 0-based arguments, a
\* negative one counting from the end of the array.
ArraySlice(s, begin, end) ==
    LET from == IF begin < 0 THEN (IF Len(s) + begin < 0 THEN 0 ELSE Len(s) + begin)
                ELSE (IF begin > Len(s) THEN Len(s) ELSE begin)
        to   == IF end < 0 THEN (IF Len(s) + end < 0 THEN 0 ELSE Len(s) + end)
                ELSE (IF end > Len(s) THEN Len(s) ELSE end)
    IN  IF to <= from THEN << >> ELSE [i \in 1..(to - from) |-> s[from + i]]

\* Array.prototype.join(sep) of strings.
RECURSIVE Join(_, _)
Join(strings, sep) ==
    IF Len(strings) = 0 THEN << >>
    ELSE IF Len(strings) = 1 THEN strings[1]
    ELSE strings[1] \o <<sep>> \o Join(Tail(strings), sep)

\* `stops.slice(1, -1)` whatever the start.
Intermediate_SkipsFirst(stopsSeq, start) == ArraySlice(stopsSeq, 1, -1)

\* `stops.slice(startLocation ? 0 : 1, -1)`
Intermediate(stopsSeq, start) ==
    ArraySlice(stopsSeq, IF start # << >> THEN 0 ELSE 1, -1)

\* `.slice(0, 10)`.
FirstWaypoints_Ten(stopsSeq) == ArraySlice(stopsSeq, 0, 10)

\* `.slice(0, 9)`
FirstWaypoints(stopsSeq) == ArraySlice(stopsSeq, 0, 9)

\* `const origin = startLocation ? ... : ...`
OriginOf(stopsSeq, start) ==
    IF start # << >> THEN LatLng(start[1]) ELSE LatLng(stopsSeq[1])

\* The destination taken from the first stop.
DestinationOf_First(stopsSeq) == LatLng(stopsSeq[1])

\* `const destination = ...stops[stops.length - 1]...`
DestinationOf(stopsSeq) == LatLng(stopsSeq[Len(stopsSeq)])

generateGoogleMapsUrl(stopsSeq, start) ==
    IF Len(stopsSeq) = 0 THEN << >>
    ELSE LET origin == OriginOf(stopsSeq, start)
             destination == DestinationOf(stopsSeq)
             kept == FirstWaypoints(Intermediate(stopsSeq, start))
             waypoints == Join([i \in DOMAIN kept |-> LatLng(kept[i])], Text("|"))
             base == <<Text("https://www.google.com/maps/dir/?api=1&origin=")>>
                     \o origin \o <<Text("&destination=")>> \o destination
                     \o <<Text("&travelmode=driving")>>
         IN  IF waypoints # << >>
             THEN base \o <<Text("&waypoints=")>> \o waypoints
             ELSE base

LinkPoints == {<<10, 20>>, <<30, 10>>}
LinkStarts == {<<20, 30>>}

InitLink ==
    /\ NoScreen
    /\ \E n \in 0..MaxLinkStops :
           \E coords \in [1..n -> LinkPoints] :
               \E start \in MaybeStarts(LinkStarts) :
                   InitCall(StopsAt(coords), start)

GenerateGoogleMapsUrl ==
    /\ pc = "ready"
    /\ url' = generateGoogleMapsUrl(arrays.stops, startLocation)
    /\ pc' = "linked"
    /\ UNCHANGED <<arrays, input, startLocation, locals, ret, total>>
    /\ UNCHANGED <<screenVars, serviceVars>>

NextLink == GenerateGoogleMapsUrl

SpecLink == InitLink /\ [][NextLink]_vars

NextSequencer ==
    \/ OptimizeRouteReturnsEarly
    \/ OptimizeRouteBegins
    \/ OptimizeRouteIterates
    \/ OptimizeRouteReturns
    \/ CalculateTotalDistance

SpecSequencer == InitSequencer /\ [][NextSequencer]_vars

(***************************************************************************)
(* directionsService: calculateDistance (haversine, in metres in the code; *)
(* here in units of 1000/Scale m, the unit of the distances above),        *)
(* findCurrentStep and decodePolyline.                                     *)
(***************************************************************************)
EarthRadius == 6371000

DirectionsService_calculateDistance(lat1, lon1, lat2, lon2) ==
    LET phi1 == ToRadians(lat1)
        phi2 == ToRadians(lat2)
        dPhi == ToRadians(lat2 - lat1)
        dLambda == ToRadians(lon2 - lon1)
        a == MathSin(TruncDiv(dPhi, 2)) * MathSin(TruncDiv(dPhi, 2))
             + FixMul(FixMul(MathCos(phi1), MathCos(phi2)),
                      MathSin(TruncDiv(dLambda, 2)))
               * MathSin(TruncDiv(dLambda, 2))
        c == 2 * MathAtan2(MathSqrt(a), MathSqrt(Scale * Scale - a))
    IN  (EarthRadius \div 1000) * c

\* NavigationStep: its instruction and its start point.
NavigationStep(instruction, lat, lng) ==
    [instruction |-> instruction, startLocation |-> [lat |-> lat, lng |-> lng]]

\* `!steps || steps.length === 0`
NoSteps(stepsSeq) == Len(stepsSeq) = 0

\* A step as near as the closest so far replaces it.
IsCloser_OrEqual(distance, minDistance) == distance <= minDistance

\* `distance < minDistance`
IsCloser(distance, minDistance) == distance < minDistance

\* The for loop of findCurrentStep from the step of 0-based index i.
RECURSIVE ScanClosest(_, _, _, _, _, _)
ScanClosest(stepsSeq, from, i, closestStep, closestIndex, minDistance) ==
    IF ~(i < Len(stepsSeq))
    THEN [step |-> closestStep, index |-> closestIndex]
    ELSE CHOOSE r \in
           {IF IsCloser(distance, minDistance)
            THEN ScanClosest(stepsSeq, from, i + 1, stepsSeq[i + 1], i, distance)
            ELSE ScanClosest(stepsSeq, from, i + 1, closestStep, closestIndex,
                             minDistance) :
               distance \in {DirectionsService_calculateDistance(
                                from.latitude, from.longitude,
                                stepsSeq[i + 1].startLocation.lat,
                                stepsSeq[i + 1].startLocation.lng)}} : TRUE

\* findCurrentStep: << >> is null, <<r>> the object returned.
findCurrentStep(from, stepsSeq) ==
    IF NoSteps(stepsSeq) THEN << >>
    ELSE <<ScanClosest(stepsSeq, from, 1, stepsSeq[1], 0,
               DirectionsService_calculateDistance(
                   from.latitude, from.longitude,
                   stepsSeq[1].startLocation.lat, stepsSeq[1].startLocation.lng))>>

(***************************************************************************)
(* decodePolyline.  A string is the sequence of its character codes.  A    *)
(* number that may be NaN is << >> (NaN) or <<n>>.  The code computes on   *)
(* 32-bit integers; on the encoding of coordinates within range no value   *)
(* reaches 2^31 (a delta of 360 degrees is below 2^27 once shifted).  A    *)
(* coordinate `lat / 1e5` is held as the integer lat, a count of 1e-5      *)
(* degrees.                                                                *)
(***************************************************************************)
\* `encoded.charCodeAt(index) - 63`: NaN when index is past the end.
CharCodeMinus63(chars, index) ==
    IF index < Len(chars) THEN <<chars[index + 1] - 63>> ELSE << >>

\* `b & 0x1f`: NaN counts as 0.
AndMask(b) == IF b = << >> THEN 0 ELSE b[1] % 32

\* `b >= 0x20`: false for NaN.
MoreChunks(b) == b # << >> /\ b[1] >= 32

RECURSIVE Pow2(_)
Pow2(n) == IF n = 0 THEN 1 ELSE 2 * Pow2(n - 1)

\* `x << shift`
ShiftLeft(x, shift) == x * Pow2(shift % 32)

\* `a | b` for a >= 0 and b >= 0.
RECURSIVE BitOr(_, _)
BitOr(a, b) ==
    IF a = 0 THEN b
    ELSE IF b = 0 THEN a
    ELSE 2 * BitOr(a \div 2, b \div 2) + (IF a % 2 = 1 \/ b % 2 = 1 THEN 1 ELSE 0)

\* One do-while loop: the result and the index after it.
RECURSIVE ReadChunks(_, _, _, _)
ReadChunks(chars, index, shift, result) ==
    CHOOSE r \in
      {IF MoreChunks(v[1])
       THEN ReadChunks(chars, index + 1, shift + 5, v[2])
       ELSE [result |-> v[2], index |-> index + 1] :
          v \in {<<CharCodeMinus63(chars, index),
                   BitOr(result, ShiftLeft(AndMask(CharCodeMinus63(chars, index)),
                                           shift))>>}} : TRUE

\* The delta is half the result whatever its lowest bit.
Delta_Unsigned(result) == result \div 2

\* `(result & 1) !== 0 ? ~(result >> 1) : result >> 1`
Delta(result) ==
    IF result % 2 # 0 THEN -(result \div 2) - 1 ELSE result \div 2

\* `index <= encoded.length`
InString_OrAtEnd(chars, index) == index <= Len(chars)

\* `index < encoded.length`
InString(chars, index) == index < Len(chars)

\* The while loop of decodePolyline.
RECURSIVE DecodeLoop(_, _, _, _, _)
DecodeLoop(chars, index, lat, lng, points) ==
    IF ~InString(chars, index) THEN points
    ELSE CHOOSE r \in
      {DecodeLoop(chars, v[2].index, lat + Delta(v[1].result),
                  lng + Delta(v[2].result),
                  Append(points, [latitude |-> lat + Delta(v[1].result),
                                  longitude |-> lng + Delta(v[2].result)])) :
          v \in {<<ReadChunks(chars, index, 0, 0),
                   ReadChunks(chars, ReadChunks(chars, index, 0, 0).index, 0, 0)>>}}
        : TRUE

decodePolyline(chars) == DecodeLoop(chars, 0, 0, 0, << >>)

(***************************************************************************)
(* The core operations called on their own, each once and in any order:    *)
(* on a list of stops, on a position and a list of steps, on a string.     *)
(***************************************************************************)
StepPoints == {<<0, 10>>, <<10, 0>>, <<0, 30>>}
StepOrigins == {<<0, 0>>, <<0, 20>>}

StepsAt(coords) ==
    [i \in DOMAIN coords |-> NavigationStep(i, coords[i][1], coords[i][2])]

\* The characters ? @ A _ and ` : the values 0, 1, 2 and, with a chunk to
\* follow, 0 and 1.
PolylineAlphabet == {63, 64, 65, 95, 96}

\* "_p~iF~ps|U_ulLnnqC_mqNvxq`@"
PolylineFixture ==
    <<95, 112, 126, 105, 70, 126, 112, 115, 124, 85, 95, 117, 108, 76, 110, 110,
      113, 67, 95, 109, 113, 78, 118, 120, 113, 96, 64>>

EncodedStrings ==
    UNION {[1..n -> PolylineAlphabet] : n \in 0..MaxEncodedLength}
        \cup {PolylineFixture}

InitService ==
    /\ NoScreen
    /\ NoUnits
    /\ calls = NoCalls
    /\ \/ /\ \E n \in 0..MaxStops :
               \E coords \in [1..n -> LinkPoints] :
                   \E start \in MaybeStarts(LinkStarts) :
                       InitCore(StopsAt(coords), start)
          /\ position = Location(0, 0)
          /\ steps = << >>
          /\ encoded = << >>
       \/ /\ InitCore(<< >>, << >>)
          /\ \E from \in StepOrigins : position = Location(from[1], from[2])
          /\ \E n \in 0..MaxSteps :
               \E coords \in [1..n -> StepPoints] : steps = StepsAt(coords)
          /\ encoded = << >>
       \/ /\ InitCore(<< >>, << >>)
          /\ position = Location(0, 0)
          /\ steps = << >>
          /\ encoded \in EncodedStrings

OptimizeRouteCall ==
    /\ calls.optimizeRoute = << >>
    /\ calls' = [calls EXCEPT
                   !.optimizeRoute = <<optimizeRoute(arrays.stops, startLocation)>>]
    /\ UNCHANGED <<coreVars, screenVars, position, steps, encoded, unitVars>>

CalculateTotalDistanceCall ==
    /\ calls.calculateTotalDistance = << >>
    /\ calls' = [calls EXCEPT
                   !.calculateTotalDistance =
                       <<calculateTotalDistance(arrays.stops, startLocation)>>]
    /\ UNCHANGED <<coreVars, screenVars, position, steps, encoded, unitVars>>

GenerateGoogleMapsUrlCall ==
    /\ calls.generateGoogleMapsUrl = << >>
    /\ calls' = [calls EXCEPT
                   !.generateGoogleMapsUrl =
                       <<generateGoogleMapsUrl(arrays.stops, startLocation)>>]
    /\ UNCHANGED <<coreVars, screenVars, position, steps, encoded, unitVars>>

FindCurrentStep ==
    /\ calls.findCurrentStep = << >>
    /\ calls' = [calls EXCEPT !.findCurrentStep = <<findCurrentStep(position, steps)>>]
    /\ UNCHANGED <<coreVars, screenVars, position, steps, encoded, unitVars>>

DecodePolyline ==
    /\ calls.decodePolyline = << >>
    /\ calls' = [calls EXCEPT !.decodePolyline = <<decodePolyline(encoded)>>]
    /\ UNCHANGED <<coreVars, screenVars, position, steps, encoded, unitVars>>

NextService ==
    \/ OptimizeRouteCall
    \/ CalculateTotalDistanceCall
    \/ GenerateGoogleMapsUrlCall
    \/ FindCurrentStep
    \/ DecodePolyline

SpecService == InitService /\ [][NextService]_vars

(***************************************************************************)
(* getManeuverIcon.  A character is named by its code point.  A value is a *)
(* string or an object (a function is an object).  `icons` is an object    *)
(* literal, so reading a property it does not own goes on to               *)
(* Object.prototype.                                                       *)
(***************************************************************************)
StringValue(text) == [type |-> "string", text |-> text]
ObjectValue(name) == [type |-> "object", text |-> name]

\* '⬆️'
DefaultIcon == StringValue("U+2B06 U+FE0F")

\* `icons`: its own properties.
icons ==
    [tag \in {"turn-left", "ramp-left"} |-> StringValue("U+21B0")]
    @@ [tag \in {"turn-right", "ramp-right"} |-> StringValue("U+21B1")]
    @@ [tag \in {"turn-slight-left", "fork-left"} |-> StringValue("U+2196")]
    @@ [tag \in {"turn-slight-right", "fork-right"} |-> StringValue("U+2197")]
    @@ ("turn-sharp-left" :> StringValue("U+2B05"))
    @@ ("turn-sharp-right" :> StringValue("U+27A1"))
    @@ ("uturn-left" :> StringValue("U+21B6"))
    @@ ("uturn-right" :> StringValue("U+21B7"))
    @@ ("straight" :> StringValue("U+2B06"))
    @@ ("merge" :> StringValue("U+2934"))
    @@ ("roundabout-left" :> StringValue("U+21BA"))
    @@ ("roundabout-right" :> StringValue("U+21BB"))

\* The properties every object literal inherits.
ObjectPrototype ==
    [key \in {"constructor", "hasOwnProperty", "isPrototypeOf",
              "propertyIsEnumerable", "toLocaleString", "toString", "valueOf",
              "__defineGetter__", "__defineSetter__", "__lookupGetter__",
              "__lookupSetter__"} |-> ObjectValue(key)]
    @@ ("__proto__" :> ObjectValue("Object.prototype"))

\* `object[key]`: << >> is undefined.
Get(object, key) ==
    IF key \in DOMAIN object THEN <<object[key]>>
    ELSE IF key \in DOMAIN ObjectPrototype THEN <<ObjectPrototype[key]>>
    ELSE << >>

\* A value that counts as true: not undefined and not the empty string.
Truthy(value) == value # << >> /\ value[1] # StringValue("")

\* `!maneuver`
NoManeuverGiven(m) == ~m.given \/ m.text = ""

getManeuverIcon(m) ==
    IF NoManeuverGiven(m) THEN DefaultIcon
    ELSE IF Truthy(Get(icons, m.text)) THEN Get(icons, m.text)[1]
    ELSE DefaultIcon

\* The arguments drawn: absent, empty, the tags of the table, the names of
\* inherited properties, and other strings.
Maneuvers ==
    {Undefined, String("")}
      \cup {String(tag) : tag \in DOMAIN icons}
      \cup {String(key) : key \in DOMAIN ObjectPrototype}
      \cup {String(text) : text \in
              {"keep-left", "keep-right", "ferry", "ferry-train", "roundabout",
               "turn", "left", "right", "Turn-Left", "TURN-LEFT", "turn_left",
               "turn-left ", " turn-left", "Straight", "straight-ahead", "uturn",
               "u-turn", "merge-left", "exit", "depart", "arrive", "continue",
               "0", "null", "undefined"}}

\* No stop list, no screen, no argument of the directions service.
Idle ==
    /\ NoScreen
    /\ InitCore(<< >>, << >>)
    /\ NoArguments
    /\ calls = NoCalls

InitManeuver ==
    /\ Idle
    /\ NoDistance /\ NoTracker /\ NoAuth /\ NoDecoder
    /\ maneuver \in Maneuvers
    /\ icon = << >>

GetManeuverIcon ==
    /\ icon = << >>
    /\ icon' = <<getManeuverIcon(maneuver)>>
    /\ UNCHANGED <<coreVars, screenVars, position, steps, encoded, calls, maneuver,
                   endpoints, measured, tracker, auth, decoder>>

NextManeuver == GetManeuverIcon

SpecManeuver == InitManeuver /\ [][NextManeuver]_vars

(***************************************************************************)
(* calculateDistance of routeOptimizer called on two points: a point of    *)
(* the grid, and the same point or one a few degrees away.                 *)
(***************************************************************************)
GridLatitudes == {-90, -45, -10, 0, 10, 45, 90}
GridLongitudes == {-180, -90, -10, 0, 10, 90, 180}
Offsets == {<<0, 0>>, <<0, 10>>, <<10, 0>>, <<-10, -10>>}

\* A latitude within -90..90 and a longitude within -180..180.
InRange(point) ==
    /\ point.latitude >= -90 /\ point.latitude <= 90
    /\ point.longitude >= -180 /\ point.longitude <= 180

InitDistance ==
    /\ Idle
    /\ NoManeuver /\ NoTracker /\ NoAuth /\ NoDecoder
    /\ \E lat \in GridLatitudes, lon \in GridLongitudes, offset \in Offsets :
          /\ InRange(Location(lat + offset[1], lon + offset[2]))
          /\ endpoints = <<Location(lat, lon),
                           Location(lat + offset[1], lon + offset[2])>>
    /\ measured = << >>

CalculateDistance ==
    /\ measured = << >>
    /\ measured' = <<calculateDistance(endpoints[1].latitude, endpoints[1].longitude,
                                      endpoints[2].latitude, endpoints[2].longitude)>>
    /\ UNCHANGED <<coreVars, screenVars, position, steps, encoded, calls, maneuver,
                   icon, endpoints, tracker, auth, decoder>>

NextDistance == CalculateDistance

SpecDistance == InitDistance /\ [][NextDistance]_vars

(***************************************************************************)
(* LocationTracker (services/locationTracker, src/unnamed/part_002).  A    *)
(* call of startTracking or stopTracking runs up to its next `await` in    *)
(* one step and resumes in a later step; up to MaxTrackerCalls calls are   *)
(* under way at a time, each at its own position.  The platform holds the  *)
(* position subscriptions that are live and the number of times the        *)
(* background task was started and not stopped.                            *)
(*                                                                         *)
(* The location task is defined when the module loads, so                  *)
(* TaskManager.isTaskDefined answers true.  The callback that sends a      *)
(* position to the backend is left out.                                    *)
(***************************************************************************)
TrackerCalls == 1..MaxTrackerCalls

\* The position of a call that takes the first free place.
Begins(i, at) ==
    /\ tracker.calls[i] = "idle"
    /\ \A j \in TrackerCalls : j < i => tracker.calls[j] # "idle"
    /\ tracker' = [tracker EXCEPT !.calls[i] = at]

Moves(i, from, to) ==
    /\ tracker.calls[i] = from
    /\ tracker' = [tracker EXCEPT !.calls[i] = to]

TrackerFrame ==
    UNCHANGED <<coreVars, screenVars, position, steps, encoded, calls, maneuver,
                icon, endpoints, measured, auth, decoder>>

\* A subscription that is not live yet.
FreeSubscriptions == (1..MaxSubscriptions) \ tracker.live

\* startTracking up to `await Location.requestForegroundPermissionsAsync()`;
\* when isTracking is set it returns at once.
StartTracking(i) ==
    /\ ~tracker.isTracking
    /\ Begins(i, "requestForegroundPermissions")
    /\ TrackerFrame

ForegroundGranted(i) ==
    /\ Moves(i, "requestForegroundPermissions", "requestBackgroundPermissions")
    /\ TrackerFrame

\* The permission is denied, or the request throws: startTracking returns.
ForegroundDenied(i) ==
    /\ Moves(i, "requestForegroundPermissions", "idle")
    /\ TrackerFrame

\* `await this.startBackgroundTracking()`
BackgroundGranted(i) ==
    /\ Moves(i, "requestBackgroundPermissions", "startLocationUpdates")
    /\ TrackerFrame

\* `await this.startForegroundTracking()` of the else branch.
BackgroundNotGranted(i) ==
    /\ Moves(i, "requestBackgroundPermissions", "watchPosition")
    /\ TrackerFrame

\* The request throws: `await this.startForegroundTracking()` of the catch.
BackgroundThrows(i) ==
    /\ Moves(i, "requestBackgroundPermissions", "watchPositionAgain")
    /\ TrackerFrame

\* startLocationUpdatesAsync has started the task: `this.isTracking = true`.
StartLocationUpdatesSucceeds(i) ==
    /\ tracker.calls[i] = "startLocationUpdates"
    /\ tracker.background < MaxTrackerCalls
    /\ tracker' = [tracker EXCEPT !.calls[i] = "idle",
                                  !.background = @ + 1,
                                  !.isTracking = TRUE]
    /\ TrackerFrame

StartLocationUpdatesThrows(i) ==
    /\ Moves(i, "startLocationUpdates", "watchPositionAgain")
    /\ TrackerFrame

\* watchPositionAsync resolves: startForegroundTracking stores the
\* subscription, and startTracking sets isTracking.
WatchPositionResolves(i) ==
    /\ tracker.calls[i] \in {"watchPosition", "watchPositionAgain"}
    /\ FreeSubscriptions # {}
    /\ LET subscription == CHOOSE id \in FreeSubscriptions :
                               \A other \in FreeSubscriptions : id <= other
       IN  tracker' = [tracker EXCEPT !.calls[i] = "idle",
                                     !.live = @ \cup {subscription},
                                     !.foregroundSubscription = subscription,
                                     !.isTracking = TRUE]
    /\ TrackerFrame

\* watchPositionAsync throws in the try block: the catch calls
\* startForegroundTracking again.
WatchPositionThrows(i) ==
    /\ Moves(i, "watchPosition", "watchPositionAgain")
    /\ TrackerFrame

\* watchPositionAsync throws in the catch block: the outer catch logs it.
WatchPositionThrowsAgain(i) ==
    /\ Moves(i, "watchPositionAgain", "idle")
    /\ TrackerFrame

\* stopTracking up to `await TaskManager.isTaskDefined(...)`; when isTracking
\* is not set it returns at once.
StopTracking(i) ==
    /\ tracker.isTracking
    /\ tracker.calls[i] = "idle"
    /\ \A j \in TrackerCalls : j < i => tracker.calls[j] # "idle"
    /\ tracker' = [tracker EXCEPT
                      !.calls[i] = "isTaskDefined",
                      !.live = @ \ {tracker.foregroundSubscription},
                      !.foregroundSubscription = 0]
    /\ TrackerFrame

\* `await Location.stopLocationUpdatesAsync(LOCATION_TASK_NAME)`
IsTaskDefinedResolves(i) ==
    /\ Moves(i, "isTaskDefined", "stopLocationUpdates")
    /\ TrackerFrame

\* The task is stopped: `this.isTracking = false`.
StopLocationUpdatesSucceeds(i) ==
    /\ tracker.calls[i] = "stopLocationUpdates"
    /\ tracker' = [tracker EXCEPT !.calls[i] = "idle",
                                  !.background = 0,
                                  !.isTracking = FALSE]
    /\ TrackerFrame

\* stopLocationUpdatesAsync throws (the task is not running): the catch
\* logs it.
StopLocationUpdatesThrows(i) ==
    /\ Moves(i, "stopLocationUpdates", "idle")
    /\ TrackerFrame

InitTracker ==
    /\ Idle
    /\ NoManeuver /\ NoDistance /\ NoAuth /\ NoDecoder
    /\ NoTracker

NextTracker ==
    \E i \in TrackerCalls :
        \/ StartTracking(i)
        \/ ForegroundGranted(i)
        \/ ForegroundDenied(i)
        \/ BackgroundGranted(i)
        \/ BackgroundNotGranted(i)
        \/ BackgroundThrows(i)
        \/ StartLocationUpdatesSucceeds(i)
        \/ StartLocationUpdatesThrows(i)
        \/ WatchPositionResolves(i)
        \/ WatchPositionThrows(i)
        \/ WatchPositionThrowsAgain(i)
        \/ StopTracking(i)
        \/ IsTaskDefinedResolves(i)
        \/ StopLocationUpdatesSucceeds(i)
        \/ StopLocationUpdatesThrows(i)

SpecTracker == InitTracker /\ [][NextTracker]_vars

(***************************************************************************)
(* The token of ApiService (apiService.ts lines 174-200) with its callers: *)
(* App.checkAuth on mount, the login of LoginScreen, the logout of         *)
(* RoutesListScreen, and the requests, each of which asks getHeaders and   *)
(* so getToken (the location updates of the tracker among them, at any     *)
(* time).  A token is a number of Tokens, null is 0.                       *)
(*                                                                         *)
(* AsyncStorage is not part of the repository.  An operation on it takes   *)
(* effect at some instant after the call (a step of its own) and its       *)
(* promise resolves in a later step; nothing orders the operations of      *)
(* different calls.  Calls under way are a set: two calls of one method at *)
(* the same position with the same value are one.                          *)
(*                                                                         *)
(* auth.cleared records that clearToken has completed and setToken has     *)
(* not been called since; auth.returned is what getToken returned last.    *)
(***************************************************************************)
Tokens == {1, 2}

AuthCall(op, caller, at, value) ==
    [op |-> op, caller |-> caller, at |-> at, value |-> value]

\* The calls there can be.
AuthCalls ==
    {AuthCall("getToken", caller, at, value) :
        caller \in {"checkAuth", "request"}, at \in {"getItem", "resume"},
        value \in {0} \cup Tokens}
    \cup {AuthCall("setToken", "login", at, value) :
              at \in {"setItem", "resume"}, value \in Tokens}
    \cup {AuthCall("clearToken", "logout", at, 0) : at \in {"removeItem", "resume"}}

AuthFrame ==
    UNCHANGED <<coreVars, screenVars, position, steps, encoded, calls, maneuver,
                icon, endpoints, measured, tracker, decoder>>

\* getToken with a token in memory: `return this.token`.
GetTokenFromMemory ==
    /\ auth.token # 0
    /\ auth' = [auth EXCEPT !.returned = <<auth.token>>]
    /\ AuthFrame

\* getToken, of a request, with no token in memory:
\* `await AsyncStorage.getItem('auth_token')`.
GetTokenFromStore ==
    /\ auth.token = 0
    /\ auth' = [auth EXCEPT
                   !.calls = @ \cup {AuthCall("getToken", "request", "getItem", 0)}]
    /\ AuthFrame

\* AsyncStorage reads the item.
StoreReads(call) ==
    /\ call \in auth.calls
    /\ call.at = "getItem"
    /\ auth' = [auth EXCEPT
                   !.calls = (@ \ {call}) \cup
                       {AuthCall(call.op, call.caller, "resume", auth.stored)}]
    /\ AuthFrame

\* `this.token = <the item>; return this.token;` and, in checkAuth,
\* `if (token) { ... setCurrentScreen('routes') }`.
GetTokenResumes(call) ==
    /\ call \in auth.calls
    /\ call.op = "getToken"
    /\ call.at = "resume"
    /\ auth' = [auth EXCEPT
                   !.calls = @ \ {call},
                   !.token = call.value,
                   !.returned = <<call.value>>,
                   !.currentScreen =
                       IF call.caller = "checkAuth" /\ call.value # 0
                       THEN "routes" ELSE @]
    /\ AuthFrame

\* login has its answer: setToken up to `await AsyncStorage.setItem(...)`.
SetToken(token) ==
    /\ auth.currentScreen = "login"
    /\ auth' = [auth EXCEPT
                   !.token = token,
                   !.cleared = FALSE,
                   !.calls = @ \cup {AuthCall("setToken", "login", "setItem", token)}]
    /\ AuthFrame

\* AsyncStorage writes the item.
StoreWrites(call) ==
    /\ call \in auth.calls
    /\ call.at = "setItem"
    /\ auth' = [auth EXCEPT
                   !.stored = call.value,
                   !.calls = (@ \ {call}) \cup
                       {AuthCall(call.op, call.caller, "resume", call.value)}]
    /\ AuthFrame

\* setToken returns, login returns, handleLoginSuccess.
SetTokenResumes(call) ==
    /\ call \in auth.calls
    /\ call.op = "setToken"
    /\ call.at = "resume"
    /\ auth' = [auth EXCEPT !.calls = @ \ {call}, !.currentScreen = "routes"]
    /\ AuthFrame

\* The driver confirms the logout: clearToken up to
\* `await AsyncStorage.removeItem(...)`.
ClearToken ==
    /\ auth.currentScreen = "routes"
    /\ auth' = [auth EXCEPT
                   !.token = 0,
                   !.calls = @ \cup {AuthCall("clearToken", "logout", "removeItem", 0)}]
    /\ AuthFrame

\* AsyncStorage removes the item.
StoreRemoves(call) ==
    /\ call \in auth.calls
    /\ call.at = "removeItem"
    /\ auth' = [auth EXCEPT
                   !.stored = 0,
                   !.calls = (@ \ {call}) \cup
                       {AuthCall(call.op, call.caller, "resume", 0)}]
    /\ AuthFrame

\* clearToken returns, then onLogout().
ClearTokenResumes(call) ==
    /\ call \in auth.calls
    /\ call.op = "clearToken"
    /\ call.at = "resume"
    /\ auth' = [auth EXCEPT !.calls = @ \ {call},
                            !.cleared = TRUE,
                            !.currentScreen = "login"]
    /\ AuthFrame

\* The app starts, with or without a token stored by an earlier run:
\* checkAuth has called getToken.
InitAuth ==
    /\ Idle
    /\ NoManeuver /\ NoDistance /\ NoTracker /\ NoDecoder
    /\ \E stored \in {0} \cup Tokens :
           auth = [token |-> 0, stored |-> stored, cleared |-> FALSE,
                   returned |-> << >>, currentScreen |-> "login",
                   calls |-> {AuthCall("getToken", "checkAuth", "getItem", 0)}]

NextAuth ==
    \/ GetTokenFromMemory
    \/ GetTokenFromStore
    \/ \E token \in Tokens : SetToken(token)
    \/ ClearToken
    \/ \E call \in AuthCalls :
           \/ StoreReads(call)
           \/ GetTokenResumes(call)
           \/ StoreWrites(call)
           \/ SetTokenResumes(call)
           \/ StoreRemoves(call)
           \/ ClearTokenResumes(call)

SpecAuth == InitAuth /\ [][NextAuth]_vars

(***************************************************************************)
(* decodePolyline statement by statement (directionsService.ts lines       *)
(* 198-237): the test of the while loop, one pass of the first do-while    *)
(* loop, one pass of the second, the return.  The strings are over the     *)
(* characters ? @ _ ` and the space, whose code is below 63: they end in   *)
(* the middle of a value, hold an odd number of values, or hold a          *)
(* character no encoder writes.                                            *)
(***************************************************************************)
DecoderAlphabet == {32, 63, 64, 95, 96}

DecoderStrings == UNION {[1..n -> DecoderAlphabet] : n \in 0..MaxEncodedLength}

DecoderFrame ==
    UNCHANGED <<coreVars, screenVars, position, steps, encoded, calls, maneuver,
                icon, endpoints, measured, tracker, auth>>

\* The index never moves.
NextIndex_Stuck(index) == index

\* `index++`
NextIndex(index) == index + 1

\* `result |= (b & 0x1f) << shift`
NextResult(b) == BitOr(decoder.result, ShiftLeft(AndMask(b), decoder.shift))

\* `while (index < encoded.length)` holds: `let shift = 0; let result = 0;`
DecodeEnters ==
    /\ decoder.pc = "while"
    /\ InString(encoded, decoder.index)
    /\ decoder' = [decoder EXCEPT !.pc = "latitude", !.shift = 0, !.result = 0]
    /\ DecoderFrame

\* The test fails: `return points`.
DecodeReturns ==
    /\ decoder.pc = "while"
    /\ ~InString(encoded, decoder.index)
    /\ decoder' = [decoder EXCEPT !.pc = "returned"]
    /\ DecoderFrame

\* One pass of the first do-while loop; when `b >= 0x20` fails, lines
\* 215-219.
ReadLatitudeChunk ==
    /\ decoder.pc = "latitude"
    /\ LET b == CharCodeMinus63(encoded, decoder.index)
       IN  decoder' =
             IF MoreChunks(b)
             THEN [decoder EXCEPT !.index = NextIndex(@),
                                  !.result = NextResult(b),
                                  !.shift = @ + 5]
             ELSE [decoder EXCEPT !.index = NextIndex(@),
                                  !.lat = @ + Delta(NextResult(b)),
                                  !.result = 0,
                                  !.shift = 0,
                                  !.pc = "longitude"]
    /\ DecoderFrame

\* One pass of the second do-while loop; when `b >= 0x20` fails, lines
\* 227-233.
ReadLongitudeChunk ==
    /\ decoder.pc = "longitude"
    /\ LET b == CharCodeMinus63(encoded, decoder.index)
       IN  decoder' =
             IF MoreChunks(b)
             THEN [decoder EXCEPT !.index = NextIndex(@),
                                  !.result = NextResult(b),
                                  !.shift = @ + 5]
             ELSE [decoder EXCEPT
                      !.index = NextIndex(@),
                      !.lng = @ + Delta(NextResult(b)),
                      !.points = Append(@,
                          [latitude |-> decoder.lat,
                           longitude |-> decoder.lng + Delta(NextResult(b))]),
                      !.pc = "while"]
    /\ DecoderFrame

\* decodePolyline is called: lines 199-202.
InitDecoder ==
    /\ NoScreen
    /\ InitCore(<< >>, << >>)
    /\ NoManeuver /\ NoDistance /\ NoTracker /\ NoAuth
    /\ position = Location(0, 0)
    /\ steps = << >>
    /\ calls = NoCalls
    /\ encoded \in DecoderStrings
    /\ decoder = [pc |-> "while", index |-> 0, shift |-> 0, result |-> 0,
                  lat |-> 0, lng |-> 0, points |-> << >>]

NextDecoder ==
    \/ DecodeEnters
    \/ DecodeReturns
    \/ ReadLatitudeChunk
    \/ ReadLongitudeChunk

SpecDecoder == InitDecoder /\ [][NextDecoder]_vars

\* The function runs on: a step that can be taken is taken.
SpecDecoderRuns == SpecDecoder /\ WF_vars(NextDecoder)

(***************************************************************************)
(* RouteMapScreen.  A handler runs as one step on the state of the latest  *)
(* render; an `await` ends the step and leaves a task that resumes in a    *)
(* later step.  After a step that changes currentLocation, isNavigating or *)
(* currentStopIndex the screen renders again and the arrival effect runs,  *)
(* as part of the same step.  A state setter called after the screen was   *)
(* unmounted changes nothing.                                              *)
(*                                                                         *)
(* Alerts are shown one above the other, as Alert.alert does on iOS, and    *)
(* the driver answers the one on top; while an alert is on display the     *)
(* screen below it takes no taps.  Of the alerts that only inform (one     *)
(* button, no handler) the error alert of handleStartRoute is kept; the    *)
(* others, and the offer to open Google Maps once the route has started,   *)
(* are left out.                                                           *)
(***************************************************************************)
Stop(id, lat, lng, status) ==
    [id |-> id, latitude |-> lat, longitude |-> lng, status |-> status]

\* A pending call: its kind and its argument (a stop id, or the order to
\* save).
Task(kind, arg) == [kind |-> kind, arg |-> arg, order |-> << >>]
SaveTask(order) == [kind |-> "saveOptimizedRoute", arg |-> 0, order |-> order]

\* An alert with handlers, and what its handlers have closed over: the
\* currentStopIndex and the stop, or the array `optimized`.
Alert(kind, index, stop) ==
    [kind |-> kind, index |-> index, stop |-> stop, optimized |-> << >>]
SaveAlert(optimized) ==
    [kind |-> "save", index |-> 0, stop |-> 0, optimized |-> optimized]

\* A state setter: without effect once the screen is unmounted.
SetState(new, old) == IF mounted THEN new ELSE old

\* `isOptimized ? optimizedStops : stops`
StopsToUse(optimizedFlag, optimizedSeq, stopsSeq) ==
    IF optimizedFlag THEN optimizedSeq ELSE stopsSeq

\* calculateDistanceToStop of the screen (haversine, in units of 1/Scale km).
calculateDistanceToStop(from, stop) ==
    LET dLat == ToRadians(stop.latitude - from.latitude)
        dLon == ToRadians(stop.longitude - from.longitude)
        a == MathSin(TruncDiv(dLat, 2)) * MathSin(TruncDiv(dLat, 2))
             + FixMul(FixMul(MathCos(ToRadians(from.latitude)),
                             MathCos(ToRadians(stop.latitude))),
                      MathSin(TruncDiv(dLon, 2)))
               * MathSin(TruncDiv(dLon, 2))
        c == 2 * MathAtan2(MathSqrt(a), MathSqrt(Scale * Scale - a))
    IN  R * c

\* Every distance counts as an arrival.
IsWithinThreshold_Always(distance) == distance >= 0

\* `distance < 0.1` (km)
IsWithinThreshold(distance) == 10 * distance < Scale

\* The index the answer to an arrival alert sets: `currentStopIndex + 1`,
\* with the currentStopIndex of the render that raised the alert.
AdvancedIndex(alert) == alert.index + 1

\* The arrival effect: the alerts on display after it has run.
ArrivalEffect(shown, navigating, location, index, stopsToUse) ==
    IF ~navigating \/ location = << >> THEN shown
    ELSE IF Len(stopsToUse) = 0 THEN shown
    ELSE IF index + 1 > Len(stopsToUse) THEN shown
    ELSE LET currentStop == stopsToUse[index + 1]
             distance == calculateDistanceToStop(location[1], currentStop)
         IN  IF IsWithinThreshold(distance) /\ index < Len(stopsToUse) - 1
             THEN Append(shown, Alert("arrival", index, currentStop.id))
             ELSE shown

\* The alerts after the render that follows a step: the effect runs when one
\* of its dependencies [currentLocation, isNavigating, currentStopIndex] has
\* changed (a location set is a new object every time).
AfterRender(shown, locationSet) ==
    IF mounted' /\ (locationSet \/ isNavigating' # isNavigating
                               \/ currentStopIndex' # currentStopIndex)
    THEN ArrivalEffect(shown, isNavigating', currentLocation', currentStopIndex',
                       StopsToUse(isOptimized', optimizedStops', stops'))
    ELSE shown

\* The screen takes a tap: it is on display, loaded, with a map region, and
\* no alert covers it.
TakesTaps == mounted /\ ~loading /\ stops # << >> /\ alerts = << >>

\* The alert shown first.
Top_Oldest == alerts[1]

\* The alert the driver answers.
Top == alerts[Len(alerts)]
Popped == SubSeq(alerts, 1, Len(alerts) - 1)

\* The subscription the cleanup of the mount effect removes: the effect has
\* no dependencies, so it holds the locationSubscription of the first render.
CleanupSubscription == 0

\* A coordinate of a stop as the repository sends it is a number of degrees,
\* or NaN, or missing (null): the last two are held as two integers outside
\* the range of degrees.
NaN == 1000
Null == 2000

\* A coordinate that counts as true: a number other than 0 and NaN.
IsTruthy(coordinate) == coordinate # Null /\ coordinate # 0 /\ coordinate # NaN

isNaN(coordinate) == coordinate = NaN

\* Only the longitude is tested.
hasValidCoords_LongitudeOnly(stop) ==
    /\ IsTruthy(stop.longitude)
    /\ ~isNaN(stop.longitude)
    /\ stop.longitude # 0

\* `hasValidCoords` of loadRouteDetails.
hasValidCoords(stop) ==
    /\ IsTruthy(stop.latitude) /\ IsTruthy(stop.longitude)
    /\ ~isNaN(stop.latitude) /\ ~isNaN(stop.longitude)
    /\ stop.latitude # 0 /\ stop.longitude # 0

validStops(details) == SelectSeq(details.stops, hasValidCoords)

(***************************************************************************)
(* The routes and positions drawn.                                         *)
(***************************************************************************)
\* The coordinates of the stops of a route of n stops: two stops at one
\* place and a third at another, in turn; the same after a first stop
\* without valid coordinates (latitude 0); or no stop with valid coordinates
\* (a 0, a NaN or a missing coordinate).
ScreenRoutes(n) ==
    { [i \in 1..n |-> IF i % 3 = 0 THEN <<10, 20>> ELSE <<10, 10>>],
      [i \in 1..n |-> IF i = 1 THEN <<0, 10>>
                      ELSE IF i % 3 = 1 THEN <<10, 20>> ELSE <<10, 10>>],
      [i \in 1..n |-> IF i % 3 = 1 THEN <<0, 10>>
                      ELSE IF i % 3 = 2 THEN <<10, NaN>> ELSE <<Null, 0>>] }
GpsPoints == {<<10, 10>>, <<10, 20>>}

InitScreen ==
    /\ InitCall(<< >>, << >>)
    /\ route = [status |-> "pending"]
    /\ stops = << >>
    /\ optimizedStops = << >>
    /\ currentLocation = << >>
    /\ loading = TRUE
    /\ isOptimized = FALSE
    /\ isNavigating = FALSE
    /\ currentStopIndex = 0
    /\ locationSubscription = 0
    /\ mounted = TRUE
    /\ alerts = << >>
    \* the mount effect has called loadRouteDetails() and getCurrentLocation()
    /\ tasks = {Task("getRouteDetails", 0), Task("getCurrentLocation", 0)}
    /\ \E n \in 1..MaxRouteStops :
           \E coords \in ScreenRoutes(n) :
               server = [routeStatus |-> "pending",
                         optimizedOrder |-> << >>,
                         stops |-> [i \in 1..n |->
                                      Stop(i, coords[i][1], coords[i][2], "pending")]]
    /\ watchers = [created |-> 0, live |-> {}]
    /\ session = 0

(***************************************************************************)
(* Mount and unmount.                                                      *)
(***************************************************************************)
\* loadRouteDetails resumes with the route: some stops are valid.
LoadRouteDetailsSucceeds ==
    /\ Task("getRouteDetails", 0) \in tasks
    /\ validStops(server) # << >>
    /\ tasks' = tasks \ {Task("getRouteDetails", 0)}
    /\ route' = SetState([status |-> server.routeStatus], route)
    /\ stops' = SetState(validStops(server), stops)
    /\ loading' = SetState(FALSE, loading)
    /\ UNCHANGED <<optimizedStops, currentLocation, isOptimized, isNavigating,
                   currentStopIndex, locationSubscription, mounted, alerts,
                   server, watchers, session>>
    /\ UNCHANGED <<coreVars, serviceVars>>

\* loadRouteDetails resumes with the route: no stop is valid, onBack().
LoadRouteDetailsFindsNoStop ==
    /\ Task("getRouteDetails", 0) \in tasks
    /\ validStops(server) = << >>
    /\ tasks' = tasks \ {Task("getRouteDetails", 0)}
    /\ mounted' = FALSE
    /\ watchers' = [watchers EXCEPT !.live = @ \ {CleanupSubscription}]
    /\ UNCHANGED <<hookVars, alerts, server, session>>
    /\ UNCHANGED <<coreVars, serviceVars>>

\* getRouteDetails throws.
LoadRouteDetailsFails ==
    /\ Task("getRouteDetails", 0) \in tasks
    /\ tasks' = tasks \ {Task("getRouteDetails", 0)}
    /\ loading' = SetState(FALSE, loading)
    /\ UNCHANGED <<route, stops, optimizedStops, currentLocation, isOptimized,
                   isNavigating, currentStopIndex, locationSubscription, mounted,
                   alerts, server, watchers, session>>
    /\ UNCHANGED <<coreVars, serviceVars>>

\* getCurrentLocation resumes with a position.
GetCurrentLocationSucceeds ==
    /\ Task("getCurrentLocation", 0) \in tasks
    /\ \E p \in GpsPoints :
          currentLocation' = SetState(<<Location(p[1], p[2])>>, currentLocation)
    /\ tasks' = tasks \ {Task("getCurrentLocation", 0)}
    /\ UNCHANGED <<route, stops, optimizedStops, loading, isOptimized, isNavigating,
                   currentStopIndex, locationSubscription, mounted, server,
                   watchers, session>>
    /\ alerts' = AfterRender(alerts, mounted)
    /\ Len(alerts') <= MaxAlerts
    /\ UNCHANGED <<coreVars, serviceVars>>

\* getCurrentLocation: permission denied, or the position request throws.
GetCurrentLocationFails ==
    /\ Task("getCurrentLocation", 0) \in tasks
    /\ tasks' = tasks \ {Task("getCurrentLocation", 0)}
    /\ UNCHANGED <<hookVars, mounted, alerts, server, watchers, session>>
    /\ UNCHANGED <<coreVars, serviceVars>>

\* The driver goes back: the screen is unmounted and the cleanup of the
\* mount effect runs.
OnBack ==
    /\ mounted /\ alerts = << >>
    /\ ~loading
    /\ mounted' = FALSE
    /\ watchers' = [watchers EXCEPT !.live = @ \ {CleanupSubscription}]
    /\ UNCHANGED <<hookVars, alerts, tasks, server, session>>
    /\ UNCHANGED <<coreVars, serviceVars>>

(***************************************************************************)
(* Starting the route and the navigation session.                          *)
(***************************************************************************)
\* handleStartRoute up to `await apiService.updateRouteStatus(...)`.
HandleStartRoute ==
    /\ TakesTaps
    /\ route.status = "pending"
    /\ Task("updateRouteStatus", 0) \notin tasks
    /\ tasks' = tasks \cup {Task("updateRouteStatus", 0)}
    /\ UNCHANGED <<hookVars, mounted, alerts, server, watchers, session>>
    /\ UNCHANGED <<coreVars, serviceVars>>

\* updateRouteStatus has succeeded: handleStartRoute sets the route in
\* progress and calls startInternalNavigation, which runs up to its first
\* await (the permission request).
UpdateRouteStatusSucceeds ==
    /\ Task("updateRouteStatus", 0) \in tasks
    /\ server' = [server EXCEPT !.routeStatus = "in_progress"]
    /\ route' = SetState([route EXCEPT !.status = "in_progress"], route)
    /\ isNavigating' = SetState(TRUE, isNavigating)
    /\ currentStopIndex' = SetState(0, currentStopIndex)
    /\ session' = session + 1
    /\ tasks' = (tasks \ {Task("updateRouteStatus", 0)})
                    \cup {Task("requestForegroundPermissions", 0)}
    /\ UNCHANGED <<stops, optimizedStops, currentLocation, loading, isOptimized,
                   locationSubscription, mounted, watchers>>
    /\ alerts' = AfterRender(alerts, FALSE)
    /\ Len(alerts') <= MaxAlerts
    /\ UNCHANGED <<coreVars, serviceVars>>

\* updateRouteStatus throws, and the navigation is started all the same.
UpdateRouteStatusFails_Navigates ==
    /\ Task("updateRouteStatus", 0) \in tasks
    /\ tasks' = tasks \ {Task("updateRouteStatus", 0)}
    /\ alerts' = Append(alerts, Alert("error", 0, 0))
    /\ isNavigating' = SetState(TRUE, isNavigating)
    /\ UNCHANGED <<route, stops, optimizedStops, currentLocation, loading,
                   isOptimized, currentStopIndex, locationSubscription, mounted,
                   server, watchers, session>>
    /\ UNCHANGED <<coreVars, serviceVars>>

\* updateRouteStatus throws: handleStartRoute shows the error and ends.
UpdateRouteStatusFails ==
    /\ Task("updateRouteStatus", 0) \in tasks
    /\ tasks' = tasks \ {Task("updateRouteStatus", 0)}
    /\ alerts' = Append(alerts, Alert("error", 0, 0))
    /\ UNCHANGED <<hookVars, mounted, server, watchers, session>>
    /\ UNCHANGED <<coreVars, serviceVars>>

\* The driver closes the error alert of handleStartRoute.
DismissError ==
    /\ alerts # << >> /\ Top.kind = "error"
    /\ alerts' = Popped
    /\ UNCHANGED <<hookVars, mounted, tasks, server, watchers, session>>
    /\ UNCHANGED <<coreVars, serviceVars>>

\* startInternalNavigation resumes: the permission is granted, and it calls
\* watchPositionAsync.
PermissionGranted ==
    /\ Task("requestForegroundPermissions", 0) \in tasks
    /\ tasks' = (tasks \ {Task("requestForegroundPermissions", 0)})
                    \cup {Task("watchPosition", 0)}
    /\ UNCHANGED <<hookVars, mounted, alerts, server, watchers, session>>
    /\ UNCHANGED <<coreVars, serviceVars>>

\* startInternalNavigation resumes: the permission is denied.
PermissionDenied ==
    /\ Task("requestForegroundPermissions", 0) \in tasks
    /\ tasks' = tasks \ {Task("requestForegroundPermissions", 0)}
    /\ isNavigating' = SetState(FALSE, isNavigating)
    /\ UNCHANGED <<route, stops, optimizedStops, currentLocation, loading,
                   isOptimized, currentStopIndex, locationSubscription, mounted,
                   server, watchers, session>>
    /\ alerts' = AfterRender(alerts, FALSE)
    /\ UNCHANGED <<coreVars, serviceVars>>

\* startInternalNavigation resumes with the subscription.
WatchPositionSucceeds ==
    /\ Task("watchPosition", 0) \in tasks
    /\ tasks' = tasks \ {Task("watchPosition", 0)}
    /\ watchers' = [created |-> watchers.created + 1,
                    live |-> watchers.live \cup {watchers.created + 1}]
    /\ locationSubscription' = SetState(watchers.created + 1, locationSubscription)
    /\ UNCHANGED <<route, stops, optimizedStops, currentLocation, loading,
                   isOptimized, isNavigating, currentStopIndex, mounted, alerts,
                   server, session>>
    /\ UNCHANGED <<coreVars, serviceVars>>

\* A live subscription delivers a position to its callback.
PositionUpdate ==
    /\ watchers.live # {}
    /\ \E p \in GpsPoints :
          currentLocation' = SetState(<<Location(p[1], p[2])>>, currentLocation)
    /\ UNCHANGED <<route, stops, optimizedStops, loading, isOptimized, isNavigating,
                   currentStopIndex, locationSubscription, mounted, tasks, server,
                   watchers, session>>
    /\ alerts' = AfterRender(alerts, mounted)
    /\ Len(alerts') <= MaxAlerts
    /\ UNCHANGED <<coreVars, serviceVars>>

(***************************************************************************)
(* The arrival alert and the completion of a stop.                         *)
(***************************************************************************)
\* "No": `setCurrentStopIndex(currentStopIndex + 1)`.
AnswerArrivalNo ==
    /\ alerts # << >> /\ Top.kind = "arrival"
    /\ currentStopIndex' = SetState(AdvancedIndex(Top), currentStopIndex)
    /\ UNCHANGED <<route, stops, optimizedStops, currentLocation, loading,
                   isOptimized, isNavigating, locationSubscription, mounted,
                   tasks, server, watchers, session>>
    /\ alerts' = AfterRender(Popped, FALSE)
    /\ UNCHANGED <<coreVars, serviceVars>>

\* "Completar": `await handleCompleteStop(currentStop)`, which shows its own
\* alert and returns, then `setCurrentStopIndex(currentStopIndex + 1)`.
AnswerArrivalComplete ==
    /\ alerts # << >> /\ Top.kind = "arrival"
    /\ currentStopIndex' = SetState(AdvancedIndex(Top), currentStopIndex)
    /\ UNCHANGED <<route, stops, optimizedStops, currentLocation, loading,
                   isOptimized, isNavigating, locationSubscription, mounted,
                   tasks, server, watchers, session>>
    /\ alerts' = AfterRender(Append(Popped, Alert("complete", 0, Top.stop)), FALSE)
    /\ Len(alerts') <= MaxAlerts
    /\ UNCHANGED <<coreVars, serviceVars>>

\* The driver taps a stop of the list: handleCompleteStop(stop).
HandleCompleteStop ==
    /\ TakesTaps
    /\ \E i \in DOMAIN StopsToUse(isOptimized, optimizedStops, stops) :
          alerts' = Append(alerts, Alert("complete", 0,
                              StopsToUse(isOptimized, optimizedStops, stops)[i].id))
    /\ UNCHANGED <<hookVars, mounted, tasks, server, watchers, session>>
    /\ UNCHANGED <<coreVars, serviceVars>>

\* "Cancelar" on the alert of handleCompleteStop.
AnswerCompleteCancel ==
    /\ alerts # << >> /\ Top.kind = "complete"
    /\ alerts' = Popped
    /\ UNCHANGED <<hookVars, mounted, tasks, server, watchers, session>>
    /\ UNCHANGED <<coreVars, serviceVars>>

\* "Completar" on the alert of handleCompleteStop, up to
\* `await apiService.completeStop(stop.id)`.
AnswerCompleteConfirm ==
    /\ alerts # << >> /\ Top.kind = "complete"
    /\ alerts' = Popped
    /\ tasks' = tasks \cup {Task("completeStop", Top.stop)}
    /\ UNCHANGED <<hookVars, mounted, server, watchers, session>>
    /\ UNCHANGED <<coreVars, serviceVars>>

\* completeStop has succeeded: the repository holds the stop as completed,
\* and the handler calls loadRouteDetails.
CompleteStopSucceeds ==
    /\ \E t \in tasks :
          /\ t.kind = "completeStop"
          /\ server' = [server EXCEPT !.stops =
                           [i \in DOMAIN @ |->
                               IF @[i].id = t.arg
                               THEN [@[i] EXCEPT !.status = "completed"]
                               ELSE @[i]]]
          /\ tasks' = (tasks \ {t}) \cup {Task("getRouteDetails", 0)}
    /\ UNCHANGED <<hookVars, mounted, alerts, watchers, session>>
    /\ UNCHANGED <<coreVars, serviceVars>>

\* completeStop throws.
CompleteStopFails ==
    /\ \E t \in tasks :
          /\ t.kind = "completeStop"
          /\ tasks' = tasks \ {t}
    /\ UNCHANGED <<hookVars, mounted, alerts, server, watchers, session>>
    /\ UNCHANGED <<coreVars, serviceVars>>

(***************************************************************************)
(* Optimizing the order.                                                   *)
(***************************************************************************)
\* `order: index + 1` with the index of the pair itself.
optimizedOrder_ZeroBased(optimized) ==
    [k \in DOMAIN optimized |-> [stopId |-> optimized[k].id, order |-> k - 1]]

\* `optimized.map((stop, index) => ({ stopId: stop.id, order: index + 1 }))`
optimizedOrder(optimized) ==
    [k \in DOMAIN optimized |-> [stopId |-> optimized[k].id, order |-> k]]

\* handleOptimizeRoute: the optimized order is shown, and an alert asks
\* whether to save it.
HandleOptimizeRoute ==
    /\ TakesTaps
    /\ optimizedStops' = optimizeRoute(stops, currentLocation)
    /\ isOptimized' = TRUE
    /\ alerts' = Append(alerts, SaveAlert(optimizeRoute(stops, currentLocation)))
    /\ UNCHANGED <<route, stops, currentLocation, loading, isNavigating,
                   currentStopIndex, locationSubscription, mounted, tasks, server,
                   watchers, session>>
    /\ UNCHANGED <<coreVars, serviceVars>>

\* "Cancelar" on the alert of handleOptimizeRoute.
AnswerSaveCancel ==
    /\ alerts # << >> /\ Top.kind = "save"
    /\ alerts' = Popped
    /\ UNCHANGED <<hookVars, mounted, tasks, server, watchers, session>>
    /\ UNCHANGED <<coreVars, serviceVars>>

\* "Guardar" on the alert of handleOptimizeRoute, up to
\* `await apiService.saveOptimizedRoute(route.id, optimizedOrder)`.
AnswerSaveConfirm ==
    /\ alerts # << >> /\ Top.kind = "save"
    /\ alerts' = Popped
    /\ tasks' = tasks \cup {SaveTask(optimizedOrder(Top.optimized))}
    /\ UNCHANGED <<hookVars, mounted, server, watchers, session>>
    /\ UNCHANGED <<coreVars, serviceVars>>

\* saveOptimizedRoute has succeeded: the repository holds the order.
SaveOptimizedRouteSucceeds ==
    /\ \E t \in tasks :
          /\ t.kind = "saveOptimizedRoute"
          /\ server' = [server EXCEPT !.optimizedOrder = t.order]
          /\ tasks' = tasks \ {t}
    /\ UNCHANGED <<hookVars, mounted, alerts, watchers, session>>
    /\ UNCHANGED <<coreVars, serviceVars>>

\* saveOptimizedRoute throws.
SaveOptimizedRouteFails ==
    /\ \E t \in tasks :
          /\ t.kind = "saveOptimizedRoute"
          /\ tasks' = tasks \ {t}
    /\ UNCHANGED <<hookVars, mounted, alerts, server, watchers, session>>
    /\ UNCHANGED <<coreVars, serviceVars>>

\* Mount and unmount.
Lifecycle ==
    \/ LoadRouteDetailsSucceeds
    \/ LoadRouteDetailsFindsNoStop
    \/ LoadRouteDetailsFails
    \/ GetCurrentLocationSucceeds
    \/ GetCurrentLocationFails
    \/ OnBack

\* The navigation session: the driver starts the route, moves, and answers
\* the alerts.
Next ==
    \/ Lifecycle
    \/ HandleStartRoute
    \/ UpdateRouteStatusSucceeds
    \/ UpdateRouteStatusFails
    \/ DismissError
    \/ PermissionGranted
    \/ PermissionDenied
    \/ WatchPositionSucceeds
    \/ PositionUpdate
    \/ AnswerArrivalNo
    \/ AnswerArrivalComplete
    \/ AnswerCompleteCancel
    \/ AnswerCompleteConfirm
    \/ CompleteStopSucceeds
    \/ CompleteStopFails

Spec == InitScreen /\ [][Next]_vars

\* The stop list: the driver completes stops from the list, without
\* navigating.
NextList ==
    \/ Lifecycle
    \/ HandleCompleteStop
    \/ AnswerCompleteCancel
    \/ AnswerCompleteConfirm
    \/ CompleteStopSucceeds
    \/ CompleteStopFails

SpecList == InitScreen /\ [][NextList]_vars

\* The optimized order: the driver optimizes the order of the list and saves
\* it or not, without navigating.
NextOptimize ==
    \/ Lifecycle
    \/ HandleOptimizeRoute
    \/ AnswerSaveCancel
    \/ AnswerSaveConfirm
    \/ SaveOptimizedRouteSucceeds
    \/ SaveOptimizedRouteFails

SpecOptimize == InitScreen /\ [][NextOptimize]_vars

\* The stop list in either order: the driver optimizes the order, declines
\* to save it, and completes stops from the list.
NextStops ==
    \/ Lifecycle
    \/ HandleOptimizeRoute
    \/ AnswerSaveCancel
    \/ HandleCompleteStop
    \/ AnswerCompleteCancel
    \/ AnswerCompleteConfirm
    \/ CompleteStopSucceeds
    \/ CompleteStopFails

\* The routes of the stop list have MaxListStops stops or fewer.
InitStops == InitScreen /\ Len(server.stops) <= MaxListStops

SpecStops == InitStops /\ [][NextStops]_vars

\* The navigation session that keeps going: a pending call resumes, the
\* driver answers the alert on top, and the subscription keeps delivering
\* positions.
Fairness ==
    /\ WF_vars(UpdateRouteStatusSucceeds \/ UpdateRouteStatusFails)
    /\ WF_vars(DismissError)
    /\ WF_vars(PermissionGranted \/ PermissionDenied)
    /\ WF_vars(WatchPositionSucceeds)
    /\ WF_vars(AnswerArrivalNo \/ AnswerArrivalComplete)
    /\ WF_vars(AnswerCompleteCancel \/ AnswerCompleteConfirm)
    /\ WF_vars(CompleteStopSucceeds \/ CompleteStopFails)
    /\ WF_vars(LoadRouteDetailsSucceeds \/ LoadRouteDetailsFindsNoStop
                  \/ LoadRouteDetailsFails)
    /\ WF_vars(PositionUpdate)

SpecFair == InitScreen /\ [][Next]_vars /\ Fairness

(***************************************************************************)
(* Stopping the navigation.  No control of the screen calls                *)
(* stopInternalNavigation; here a caller runs it at any moment of a        *)
(* session, on the state of the latest render.                             *)
(***************************************************************************)
StopInternalNavigation ==
    /\ mounted /\ isNavigating
    /\ isNavigating' = FALSE
    /\ IF locationSubscription # 0
       THEN /\ watchers' = [watchers EXCEPT !.live = @ \ {locationSubscription}]
            /\ locationSubscription' = 0
       ELSE UNCHANGED <<watchers, locationSubscription>>
    /\ UNCHANGED <<route, stops, optimizedStops, currentLocation, loading,
                   isOptimized, currentStopIndex, mounted, tasks, server, session>>
    /\ alerts' = AfterRender(alerts, FALSE)
    /\ UNCHANGED <<coreVars, serviceVars>>

NextStop ==
    \/ Next
    \/ StopInternalNavigation

SpecStop == InitScreen /\ [][NextStop]_vars

(***************************************************************************)
(* Properties of optimizeRoute (SpecSequencer).                            *)
(***************************************************************************)
Returned == arrays[ret]

Occurrences(stopsSeq, id) == Cardinality({k \in DOMAIN stopsSeq : stopsSeq[k].id = id})

Ids(stopsSeq) == [k \in DOMAIN stopsSeq |-> stopsSeq[k].id]

\* C1: optimizeRoute returns a permutation of its input (same length, every
\* id as often as in the input), and a call that enters the loop makes one
\* removal per iteration and leaves it after exactly one removal per input
\* stop, with the pool empty.
C1_Permutation ==
    /\ pc = "loop" => locals.removals + Len(arrays[locals.unvisited]) = Len(input)
    /\ pc = "done" =>
          /\ Len(Returned) = Len(input)
          /\ \A i \in DOMAIN input :
                Occurrences(Returned, input[i].id) = Occurrences(input, input[i].id)
          /\ ret = "optimized" =>
                locals.removals = Len(input) /\ Len(arrays[locals.unvisited]) = 0

C1_Witness ==
    /\ pc = "done" /\ ret = "optimized"
    /\ Len(input) = 4 /\ locals.removals = 4
    /\ Returned # input

\* The place the search for element k of the output starts from.
FromAt(out, k) ==
    IF k > 1 THEN LocationOf(out[k - 1])
    ELSE IF startLocation # << >> THEN startLocation[1]
    ELSE LocationOf(input[1])

\* C2: for 2 or more stops, element k of the output is, among the input
\* stops not placed before k, one at minimum distance from the current
\* location, and of those at that minimum the one of lowest input index.
C2_NearestNeighbour ==
    (pc = "done" /\ Len(input) >= 2) =>
        \A k \in DOMAIN Returned :
            LET from == FromAt(Returned, k)
                placed == {Returned[j].id : j \in 1..(k - 1)}
                remaining == {i \in DOMAIN input : input[i].id \notin placed}
                D(i) == calculateDistance(from.latitude, from.longitude,
                                          input[i].latitude, input[i].longitude)
            IN  \E i \in remaining :
                    /\ input[i] = Returned[k]
                    /\ \A j \in remaining :
                          D(i) <= D(j) /\ (D(j) = D(i) => i <= j)

\* From (0,0) the stops at (10,0) and (0,10) are equally near: the one that
\* comes first in the input is visited first.
C2_Witness ==
    /\ pc = "done"
    /\ startLocation = <<Location(0, 0)>>
    /\ input = StopsAt(<< <<0, 30>>, <<10, 0>>, <<0, 10>> >>)
    /\ Ids(Returned) = <<2, 3, 1>>

Reorderings(stopsSeq) ==
    {[i \in DOMAIN stopsSeq |-> stopsSeq[p[i]]] : p \in Permutations(DOMAIN stopsSeq)}

\* No two stops are equally far from the start or from any stop.
TieFree(stopsSeq, start) ==
    \A from \in {start} \cup {LocationOf(stopsSeq[i]) : i \in DOMAIN stopsSeq} :
        \A i, j \in DOMAIN stopsSeq :
            i < j =>
                calculateDistance(from.latitude, from.longitude,
                                  stopsSeq[i].latitude, stopsSeq[i].longitude)
                # calculateDistance(from.latitude, from.longitude,
                                    stopsSeq[j].latitude, stopsSeq[j].longitude)

\* C3 as stated: any two input lists holding the same stops, with the same
\* start (or none), give the same visiting order.
C3_OrderIndependent ==
    pc = "done" =>
        \A other \in Reorderings(input) :
            optimizeRoute(other, startLocation) = Returned

\* C3 amended: with a start location given and no two stops equally far from
\* the start or from any stop, any two input lists holding the same stops
\* give the same visiting order.
C3_OrderIndependentFromStart ==
    (pc = "done" /\ startLocation # << >> /\ TieFree(input, startLocation[1])) =>
        \A other \in Reorderings(input) :
            optimizeRoute(other, startLocation) = Returned

C3_Witness ==
    /\ pc = "done" /\ ret = "optimized"
    /\ startLocation # << >>
    /\ Len(input) = 3
    /\ TieFree(input, startLocation[1])
    /\ Returned # input

\* C4: on 0 or 1 stops optimizeRoute returns its argument, unchanged, with
\* or without a start location.
C4_ShortListUnchanged ==
    (pc = "done" /\ Len(input) <= 1) => (ret = "stops" /\ Returned = input)

C4_Witness ==
    /\ pc = "done"
    /\ Len(input) = 1
    /\ startLocation # << >>
    /\ Returned = input

\* C5: the caller's array holds the same elements in the same order
\* throughout the call and after it.
C5_InputNotMutated == arrays.stops = input

C5_Witness ==
    /\ pc = "done" /\ ret = "optimized"
    /\ Len(input) = 4
    /\ locals.removals = 4
    /\ arrays.optimized # input
    /\ arrays.stops = input

(***************************************************************************)
(* Properties of calculateTotalDistance (SpecSequencer).                   *)
(***************************************************************************)
DistanceBetween(p, q) ==
    calculateDistance(p.latitude, p.longitude, q.latitude, q.longitude)

\* The sum of the distances of the consecutive pairs from pair i on.
RECURSIVE LegsFrom(_, _)
LegsFrom(stopsSeq, i) ==
    IF i >= Len(stopsSeq) THEN 0
    ELSE DistanceBetween(stopsSeq[i], stopsSeq[i + 1]) + LegsFrom(stopsSeq, i + 1)

\* C9: calculateTotalDistance is the sum of the distances of the consecutive
\* pairs of stops, plus the leg from the start to the first stop when a
\* start is given; 0 for no stops, 0 for one stop and no start.
C9_TotalDistance ==
    pc = "totalled" =>
        /\ Len(input) = 0 => total = 0
        /\ (Len(input) = 1 /\ startLocation = << >>) => total = 0
        /\ (Len(input) > 0 /\ startLocation = << >>) => total = LegsFrom(input, 1)
        /\ (Len(input) > 0 /\ startLocation # << >>) =>
              total = DistanceBetween(startLocation[1], input[1]) + LegsFrom(input, 1)

C9_Witness ==
    /\ pc = "totalled"
    /\ startLocation = <<Location(10, 10)>>
    /\ input = StopsAt(<< <<0, 0>>, <<0, 10>>, <<0, 30>> >>)
    /\ total = DistanceBetween(Location(10, 10), Location(0, 0))
                + DistanceBetween(Location(0, 0), Location(0, 10))
                + DistanceBetween(Location(0, 10), Location(0, 30))
    /\ total > 0

(***************************************************************************)
(* Properties of generateGoogleMapsUrl (SpecLink).                         *)
(***************************************************************************)
ParameterNames ==
    {"https://www.google.com/maps/dir/?api=1&origin=", "&destination=",
     "&travelmode=driving", "&waypoints="}

IsParameterName(piece) == piece.kind = "text" /\ piece.text \in ParameterNames

HasParameter(u, name) == \E i \in DOMAIN u : u[i] = Text(name)

\* The pieces of the value of parameter `name`: those after its name up to
\* the next parameter or the end of the string.
ParameterValue(u, name) ==
    LET at == CHOOSE i \in DOMAIN u : u[i] = Text(name)
        after == {j \in DOMAIN u : j > at /\ IsParameterName(u[j])}
        end == IF after = {} THEN Len(u) + 1
               ELSE CHOOSE j \in after : \A k \in after : j <= k
    IN  SubSeq(u, at + 1, end - 1)

\* The coordinate pairs of a value "lat,lng|lat,lng|...": every pair is
\* three pieces, and a "|" stands between two pairs.
WellFormedPairs(value) ==
    /\ Len(value) % 4 = 3
    /\ \A i \in DOMAIN value :
          CASE i % 4 = 1 -> value[i].kind = "number"
            [] i % 4 = 2 -> value[i] = Text(",")
            [] i % 4 = 3 -> value[i].kind = "number"
            [] OTHER     -> value[i] = Text("|")

PairsOf(value) ==
    [k \in 1..((Len(value) + 1) \div 4) |->
        <<value[4 * k - 3].number, value[4 * k - 1].number>>]

WaypointPairs(u) ==
    IF HasParameter(u, "&waypoints=") THEN PairsOf(ParameterValue(u, "&waypoints="))
    ELSE << >>

PairOf(stop) == <<stop.latitude, stop.longitude>>

\* C6: the URL carries at most 9 waypoint coordinate pairs, and exactly 9
\* for 11 stops and no start.
C6_AtMostNineWaypoints ==
    pc = "linked" =>
        /\ HasParameter(url, "&waypoints=") =>
              WellFormedPairs(ParameterValue(url, "&waypoints="))
        /\ Len(WaypointPairs(url)) <= 9
        /\ (Len(input) = 11 /\ startLocation = << >>) => Len(WaypointPairs(url)) = 9

C6_Witness ==
    /\ pc = "linked"
    /\ Len(input) = 12
    /\ startLocation # << >>
    /\ Len(WaypointPairs(url)) = 9

\* The stops strictly between origin and destination, the first 9 of them.
ExpectedWaypoints ==
    LET first == IF startLocation = << >> THEN 2 ELSE 1
        count == Len(input) - first
        kept == IF count > 9 THEN 9 ELSE IF count < 0 THEN 0 ELSE count
    IN  [k \in 1..kept |-> PairOf(input[first + k - 1])]

\* C7: for a non-empty list of n stops the waypoints are, in list order,
\* stops 2..n-1 without a start and stops 1..n-1 with one, cut to the first
\* 9; when there is none the URL has no waypoints parameter.
C7_WaypointsBetween ==
    (pc = "linked" /\ Len(input) > 0) =>
        /\ WaypointPairs(url) = ExpectedWaypoints
        /\ HasParameter(url, "&waypoints=") <=> ExpectedWaypoints # << >>

C7_Witness ==
    /\ pc = "linked"
    /\ startLocation # << >>
    /\ Len(input) = 3
    /\ WaypointPairs(url) = << <<10, 20>>, <<30, 10>> >>

\* C8: for a non-empty list the origin is the start location when one is
\* given and the first stop otherwise, and the destination is the last stop.
C8_OriginAndDestination ==
    (pc = "linked" /\ Len(input) > 0) =>
        /\ PairsOf(ParameterValue(url, "https://www.google.com/maps/dir/?api=1&origin="))
             = << IF startLocation # << >>
                  THEN <<startLocation[1].latitude, startLocation[1].longitude>>
                  ELSE PairOf(input[1]) >>
        /\ PairsOf(ParameterValue(url, "&destination="))
             = << PairOf(input[Len(input)]) >>

C8_Witness ==
    /\ pc = "linked"
    /\ startLocation = << >>
    /\ Len(input) = 11
    /\ PairOf(input[1]) # PairOf(input[11])
    /\ PairsOf(ParameterValue(url, "&destination=")) = << PairOf(input[11]) >>

(***************************************************************************)
(* Properties of the navigation session (Spec).                            *)
(***************************************************************************)
\* C10: within one navigation session currentStopIndex never decreases.
C10_IndexNeverRegresses ==
    [][(isNavigating /\ isNavigating' /\ session' = session)
          => currentStopIndex' >= currentStopIndex]_vars

(***************************************************************************)
(* The arrival prompt.                                                     *)
(***************************************************************************)
\* The arrival prompts on display that were raised for the stop of an index.
ArrivalPrompts(shown, index) ==
    Cardinality({k \in DOMAIN shown : shown[k].kind = "arrival"
                                        /\ shown[k].index = index})

\* The stop the session is heading for: << >> when there is none.
CurrentStop ==
    IF currentStopIndex + 1 <= Len(StopsToUse(isOptimized, optimizedStops, stops))
    THEN <<StopsToUse(isOptimized, optimizedStops, stops)[currentStopIndex + 1]>>
    ELSE << >>

\* The session is navigating and the position is exactly at the coordinates
\* of the current stop, so within the threshold.
Lingering ==
    /\ isNavigating
    /\ currentLocation # << >>
    /\ CurrentStop # << >>
    /\ currentLocation[1].latitude = CurrentStop[1].latitude
    /\ currentLocation[1].longitude = CurrentStop[1].longitude

\* C11: while the driver lingers within the threshold of the current stop
\* and its arrival prompt is on display, a step that leaves the index as it
\* is (a further position update) raises no further prompt for that stop.
C11_ArrivalPromptOnce ==
    [][(/\ Lingering /\ Lingering'
        /\ session' = session
        /\ currentStopIndex' = currentStopIndex
        /\ ArrivalPrompts(alerts, currentStopIndex) >= 1)
          => ArrivalPrompts(alerts', currentStopIndex)
                <= ArrivalPrompts(alerts, currentStopIndex)]_vars

(***************************************************************************)
(* The position subscription.                                              *)
(***************************************************************************)
\* C12: once the screen is torn down no position subscription is live.
C12_NoSubscriptionAfterTeardown == ~mounted => watchers.live = {}

\* startInternalNavigation is waiting for the permission or the subscription.
StartPending ==
    \E t \in tasks : t.kind \in {"requestForegroundPermissions", "watchPosition"}

\* C13: on a screen on display, when a started session is not navigating
\* (it was stopped, or the permission was denied) and no step of
\* startInternalNavigation is pending, no position subscription is live.
C13_StoppedSessionIsIdle ==
    (mounted /\ session > 0 /\ ~isNavigating /\ ~StartPending)
        => watchers.live = {}

(***************************************************************************)
(* Raising the arrival prompt and advancing the index.                     *)
(***************************************************************************)
\* The alert on top of the alerts on display.
TopOf(shown) == shown[Len(shown)]

\* A step has put a new arrival prompt on top: the alerts after the step are
\* not what is left of the alerts before it.
RaisesArrivalPrompt ==
    /\ alerts' # << >>
    /\ TopOf(alerts').kind = "arrival"
    /\ ~(/\ Len(alerts') <= Len(alerts)
         /\ alerts' = SubSeq(alerts, 1, Len(alerts')))

\* `distance < 0.1`, in km, from a position to a stop.
BelowThreshold(from, stop) ==
    10 * calculateDistanceToStop(from, stop) < Scale

\* C14: a step raises an arrival prompt only when, after it, the session is
\* navigating, a position is known, the current index is not the last one
\* and the position is less than 0.1 km from the current stop, and the
\* prompt is for that index and stop; a step changes the index only as the
\* answer to the arrival prompt on top, to the index of the prompt plus one.
C14_ArrivalPromptGuarded ==
    [][/\ RaisesArrivalPrompt =>
            /\ isNavigating'
            /\ currentLocation' # << >>
            /\ currentStopIndex' + 1 < Len(StopsToUse(isOptimized', optimizedStops', stops'))
            /\ TopOf(alerts').index = currentStopIndex'
            /\ TopOf(alerts').stop =
                  StopsToUse(isOptimized', optimizedStops', stops')[currentStopIndex' + 1].id
            /\ BelowThreshold(currentLocation'[1],
                  StopsToUse(isOptimized', optimizedStops', stops')[currentStopIndex' + 1])
       /\ currentStopIndex' # currentStopIndex =>
            /\ alerts # << >>
            /\ TopOf(alerts).kind = "arrival"
            /\ currentStopIndex' = TopOf(alerts).index + 1]_vars

\* An arrival prompt was answered and the prompt for the next stop is on
\* display.
C14_Witness ==
    /\ currentStopIndex = 1
    /\ alerts # << >>
    /\ TopOf(alerts).kind = "arrival"
    /\ TopOf(alerts).index = 1

(***************************************************************************)
(* Completing a stop.                                                      *)
(***************************************************************************)
\* The stops the repository holds as completed.
CompletedOnServer(repository) ==
    {repository.stops[k].id : k \in {j \in DOMAIN repository.stops :
                                        repository.stops[j].status = "completed"}}

\* C15: a step calls completeStop for a stop only as the driver's answer
\* "Completar" to the completion alert on top, which is for that stop; and
\* the repository comes to hold a stop as completed only by such a call.
C15_CompleteOnlyOnConfirmation ==
    [][/\ \A t \in tasks' \ tasks :
            t.kind = "completeStop" =>
                /\ alerts # << >>
                /\ TopOf(alerts).kind = "complete"
                /\ TopOf(alerts).stop = t.arg
                /\ alerts' = SubSeq(alerts, 1, Len(alerts) - 1)
       /\ \A id \in CompletedOnServer(server') \ CompletedOnServer(server) :
            \E t \in tasks : t.kind = "completeStop" /\ t.arg = id]_vars

\* The driver has confirmed a stop at the arrival of which the session has
\* moved on, and the call is on its way.
C15_Witness ==
    /\ isNavigating
    /\ currentStopIndex = 1
    /\ \E t \in tasks : t.kind = "completeStop" /\ t.arg = stops[1].id
    /\ CompletedOnServer(server) = {}

(***************************************************************************)
(* The end of a navigation session.                                        *)
(***************************************************************************)
\* The driver has answered the prompts of the stops before the last and has
\* reached the last stop: the session is navigating at the last index,
\* which is not the first, the position is at that stop, no alert is on
\* display and no call is pending.
ReachedLastStop ==
    /\ mounted
    /\ Lingering
    /\ currentStopIndex >= 1
    /\ currentStopIndex = Len(StopsToUse(isOptimized, optimizedStops, stops)) - 1
    /\ alerts = << >>
    /\ tasks = {}

\* C16: once the driver has reached the last stop with every prompt
\* answered, the session eventually is no longer navigating, unless the
\* driver leaves the screen.
C16_SessionFinishes == ReachedLastStop ~> (~isNavigating \/ ~mounted)

(***************************************************************************)
(* Saving the optimized order.                                             *)
(***************************************************************************)
\* The order is one pair for each stop of a sequence, in its order,
\* numbered from 1.
NumbersEachStop(order, sequence) ==
    /\ Len(order) = Len(sequence)
    /\ \A k \in 1..Len(sequence) :
          order[k].stopId = sequence[k].id /\ order[k].order = k
    /\ {order[k].order : k \in DOMAIN order} = 1..Len(sequence)
    /\ \A stop \in {sequence[k] : k \in DOMAIN sequence} :
          Cardinality({k \in DOMAIN order : order[k].stopId = stop.id}) = 1

\* C17: a step calls saveOptimizedRoute only as the driver's answer to the
\* save alert on top, and with one (stopId, order) pair for each stop of the
\* optimized sequence on display, order being the 1-based position of the
\* stop; and the repository comes to hold an order only by such a call.
C17_SavedOnlyOnConfirmation ==
    [][/\ \A t \in tasks' \ tasks :
            t.kind = "saveOptimizedRoute" =>
                /\ alerts # << >>
                /\ TopOf(alerts).kind = "save"
                /\ alerts' = SubSeq(alerts, 1, Len(alerts) - 1)
                /\ isOptimized
                /\ NumbersEachStop(t.order, optimizedStops)
       /\ server'.optimizedOrder # server.optimizedOrder =>
            \E t \in tasks : /\ t.kind = "saveOptimizedRoute"
                              /\ t.order = server'.optimizedOrder]_vars

\* The order of a route of three stops has been saved, and it is not the
\* order of the list.
C17_Witness ==
    /\ Len(server.optimizedOrder) = 3
    /\ \E k \in 1..3 : server.optimizedOrder[k].stopId # stops[k].id

(***************************************************************************)
(* The core operations on empty input.                                     *)
(***************************************************************************)
\* C18: on empty input optimizeRoute returns the empty list,
\* calculateTotalDistance 0, generateGoogleMapsUrl the empty string,
\* findCurrentStep null and decodePolyline the empty list.
C18_EmptyInput ==
    /\ (arrays.stops = << >> /\ calls.optimizeRoute # << >>)
          => calls.optimizeRoute[1] = << >>
    /\ (arrays.stops = << >> /\ calls.calculateTotalDistance # << >>)
          => calls.calculateTotalDistance[1] = 0
    /\ (arrays.stops = << >> /\ calls.generateGoogleMapsUrl # << >>)
          => calls.generateGoogleMapsUrl[1] = << >>
    /\ (steps = << >> /\ calls.findCurrentStep # << >>)
          => calls.findCurrentStep[1] = << >>
    /\ (encoded = << >> /\ calls.decodePolyline # << >>)
          => calls.decodePolyline[1] = << >>

\* Every operation has returned from a call on empty input.
C18_Witness ==
    /\ arrays.stops = << >> /\ steps = << >> /\ encoded = << >>
    /\ \A op \in DOMAIN calls : calls[op] # << >>

(***************************************************************************)
(* findCurrentStep.                                                        *)
(***************************************************************************)
\* The distance from the position to the start point of the k-th step.
DistanceToStep(k) ==
    DirectionsService_calculateDistance(position.latitude, position.longitude,
        steps[k].startLocation.lat, steps[k].startLocation.lng)

\* C19: for a non-empty list findCurrentStep returns a step and its 0-based
\* index, the step is at minimum distance from the position, and every
\* step before it is farther.
C19_ClosestStep ==
    (steps # << >> /\ calls.findCurrentStep # << >>) =>
        /\ calls.findCurrentStep[1] # << >>
        /\ LET found == calls.findCurrentStep[1][1]
           IN  /\ found.index \in 0..(Len(steps) - 1)
               /\ found.step = steps[found.index + 1]
               /\ \A k \in DOMAIN steps :
                     DistanceToStep(found.index + 1) <= DistanceToStep(k)
               /\ \A k \in 1..found.index :
                     DistanceToStep(k) > DistanceToStep(found.index + 1)

\* The step returned is not the first, and a later step is as near.
C19_Witness ==
    /\ calls.findCurrentStep # << >>
    /\ calls.findCurrentStep[1] # << >>
    /\ calls.findCurrentStep[1][1].index = 1
    /\ Len(steps) = 3
    /\ DistanceToStep(3) = DistanceToStep(2)
    /\ steps[3].startLocation # steps[2].startLocation

(***************************************************************************)
(* decodePolyline and the standard polyline encoding.                      *)
(***************************************************************************)
\* The standard encoding of a signed value: shifted left by one bit and
\* inverted when negative, then cut into chunks of 5 bits, the lowest
\* first, each but the last with bit 0x20 set, and 63 added to each.
RECURSIVE EncodeChunks(_)
EncodeChunks(u) ==
    IF u >= 32 THEN <<(u % 32) + 32 + 63>> \o EncodeChunks(u \div 32)
    ELSE <<u + 63>>

EncodeValue(v) == EncodeChunks(IF v < 0 THEN -(2 * v) - 1 ELSE 2 * v)

\* The standard encoding of a path: for each point the latitude and the
\* longitude as the difference from the point before (from 0, 0 for the
\* first), in units of 1e-5 degrees.
RECURSIVE EncodePath(_, _, _)
EncodePath(path, lat, lng) ==
    IF path = << >> THEN << >>
    ELSE EncodeValue(path[1].latitude - lat)
           \o EncodeValue(path[1].longitude - lng)
           \o EncodePath(Tail(path), path[1].latitude, path[1].longitude)

\* (38.5, -120.2), (40.7, -120.95), (43.252, -126.453)
FixturePath ==
    <<[latitude |-> 3850000, longitude |-> -12020000],
      [latitude |-> 4070000, longitude |-> -12095000],
      [latitude |-> 4325200, longitude |-> -12645300]>>

\* The paths whose encoding the strings drawn can hold: a point takes two
\* characters or more.
PathCoordinates == {-33, -17, -2, -1, 0, 1, 2, 16, 32}
PathPoints ==
    {[latitude |-> a, longitude |-> b] : a \in PathCoordinates, b \in PathCoordinates}
Paths ==
    UNION {[1..n -> PathPoints] : n \in 0..(MaxEncodedLength \div 2)}
        \cup {FixturePath}

\* Each path with its standard encoding.
EncodedPaths == {<<EncodePath(path, 0, 0), path>> : path \in Paths}

\* C20: when the string is the standard encoding of a path, decodePolyline
\* returns that path, point for point.
C20_DecodeInvertsEncode ==
    calls.decodePolyline # << >> =>
        \A e \in EncodedPaths :
            e[1] = encoded => calls.decodePolyline[1] = e[2]

\* The published example has been decoded.
C20_Witness ==
    /\ encoded = PolylineFixture
    /\ EncodePath(FixturePath, 0, 0) = encoded
    /\ calls.decodePolyline = <<FixturePath>>

(***************************************************************************)
(* getManeuverIcon.                                                        *)
(***************************************************************************)
\* C21: getManeuverIcon returns the default indicator when the maneuver is
\* absent or is a string that is not a tag of the table, and the entry of
\* the table for a tag.
C21_ManeuverIcon ==
    icon # << >> =>
        IF maneuver.given /\ maneuver.text \in DOMAIN icons
        THEN icon[1] = icons[maneuver.text]
        ELSE icon[1] = DefaultIcon

(***************************************************************************)
(* The stops of the screen (SpecStops).                                    *)
(***************************************************************************)
Degenerate(coordinate) == coordinate \in {0, NaN, Null}

AllValid(stopsSeq) ==
    \A k \in DOMAIN stopsSeq :
        ~Degenerate(stopsSeq[k].latitude) /\ ~Degenerate(stopsSeq[k].longitude)

\* C22: every stop of the lists the screen hands to optimizeRoute,
\* calculateTotalDistance, generateGoogleMapsUrl and the arrival check (stops,
\* optimizedStops, and the array an alert holds) has a latitude and a
\* longitude that are neither 0 nor NaN nor missing.
C22_OnlyValidStops ==
    /\ AllValid(stops)
    /\ AllValid(optimizedStops)
    /\ \A i \in DOMAIN alerts : AllValid(alerts[i].optimized)

\* A route with a stop without valid coordinates has been loaded, optimized
\* and, after the completion of a stop, loaded again.
C22_Witness ==
    /\ mounted /\ isOptimized /\ optimizedStops # << >>
    /\ ~AllValid(server.stops)
    /\ stops # << >>
    /\ \E k \in DOMAIN stops : stops[k].status = "completed"

\* `stopsToShow`
StopsToShow == StopsToUse(isOptimized, optimizedStops, stops)

\* C24: once the route has been loaded again after the completion of a stop
\* (the list loaded carries the stop as completed), the list on display
\* carries that stop as completed, in the original and in the optimized
\* order.
C24_ShownListCarriesCompletion ==
    mounted =>
        \A k \in DOMAIN stops :
            stops[k].status = "completed" =>
                \A j \in DOMAIN StopsToShow :
                    StopsToShow[j].id = stops[k].id
                        => StopsToShow[j].status = "completed"

(***************************************************************************)
(* calculateDistance (SpecDistance).                                       *)
(***************************************************************************)
\* C23: the distance from a point to itself is exactly 0.
C23_DistanceToSelfIsZero ==
    (measured # << >> /\ endpoints[1] = endpoints[2]) => measured[1] = 0

\* The distance from the point (90, 180) to itself has been computed, and is 0.
C23_Witness ==
    /\ endpoints = <<Location(90, 180), Location(90, 180)>>
    /\ measured = <<0>>

(***************************************************************************)
(* Starting a route (Spec).                                                *)
(***************************************************************************)
\* The step in which handleStartRoute resumes from a failed updateRouteStatus.
FailedStart ==
    /\ Task("updateRouteStatus", 0) \in tasks
    /\ Task("updateRouteStatus", 0) \notin tasks'
    /\ session' = session

\* C25: when updateRouteStatus fails the status of the route stays pending,
\* on the screen and in the repository, the navigation is not started (not
\* navigating, index and subscriptions as they were, no permission or
\* subscription request under way), and no other updateRouteStatus call is
\* made.
C25_FailedStartChangesNothing ==
    [][FailedStart =>
          /\ route' = route /\ route'.status = "pending"
          /\ server' = server /\ server'.routeStatus = "pending"
          /\ ~isNavigating'
          /\ currentStopIndex' = currentStopIndex
          /\ locationSubscription' = locationSubscription
          /\ watchers' = watchers /\ watchers'.live = {}
          /\ tasks' = tasks \ {Task("updateRouteStatus", 0)}
          /\ \A t \in tasks' :
                t.kind \notin {"updateRouteStatus", "requestForegroundPermissions",
                               "watchPosition"}]_vars

\* The start of a route has failed: the screen shows the error.
C25_Witness ==
    /\ mounted /\ alerts # << >> /\ Top.kind = "error"
    /\ route.status = "pending" /\ ~isNavigating /\ session = 0

(***************************************************************************)
(* optimizeRoute without a start location (SpecSequencer).                 *)
(***************************************************************************)
\* C26: without a start location, the first stop of the order optimizeRoute
\* returns for 2 or more stops is the first stop of its input.
C26_FirstStopStaysFirst ==
    (pc = "done" /\ startLocation = << >> /\ Len(input) >= 2)
        => Returned[1] = input[1]

\* Without a start location an order has been returned for a list whose
\* second stop is at the coordinates of the first and whose third is not.
C26_Witness ==
    /\ pc = "done" /\ startLocation = << >> /\ Len(input) >= 3
    /\ LocationOf(input[2]) = LocationOf(input[1])
    /\ LocationOf(input[3]) # LocationOf(input[1])
    /\ Returned[1] = input[1]

(***************************************************************************)
(* LocationTracker (SpecTracker).                                          *)
(***************************************************************************)
\* C27: at any time at most one foreground position subscription is live
\* and the background task has been started at most once.
C27_OneSubscription ==
    /\ Cardinality(tracker.live) <= 1
    /\ tracker.background <= 1

NoTrackerCall == \A i \in TrackerCalls : tracker.calls[i] = "idle"

\* C28: when no startTracking or stopTracking call is under way,
\* isCurrentlyTracking() is true exactly when a foreground subscription is
\* live or the background task is running.
C28_TrackingFlagTellsTheTruth ==
    NoTrackerCall =>
        (tracker.isTracking <=> (tracker.live # {} \/ tracker.background > 0))

(***************************************************************************)
(* The token of ApiService (SpecAuth).                                     *)
(***************************************************************************)
GetTokenReturns ==
    GetTokenFromMemory \/ \E call \in AuthCalls : GetTokenResumes(call)

\* C29: once clearToken has completed and until setToken is called again,
\* every getToken call that returns returns null (so getHeaders adds no
\* Authorization header), whenever that call was started.
C29_NoTokenAfterLogout ==
    [][(auth.cleared /\ GetTokenReturns) => auth'.returned = <<0>>]_vars

(***************************************************************************)
(* decodePolyline statement by statement (SpecDecoderRuns).                *)
(***************************************************************************)
InnerLoopStep ==
    /\ decoder.pc \in {"latitude", "longitude"}
    /\ decoder' # decoder

\* C30: on every string decodePolyline returns: every pass of an inner loop
\* moves the index strictly forward, the function reaches its return, and
\* what it returns is the list of the points it decoded.
C30_DecodeTerminates ==
    /\ [][InnerLoopStep => decoder'.index > decoder.index]_vars
    /\ <>(decoder.pc = "returned")
    /\ [](decoder.pc = "returned" => decoder.points = decodePolyline(encoded))

\* A string that ends in the middle of its only value has been decoded:
\* the index has run past its end, and one point is returned.
C30_Witness ==
    /\ decoder.pc = "returned"
    /\ encoded # << >>
    /\ MoreChunks(CharCodeMinus63(encoded, Len(encoded) - 1))
    /\ decoder.index > Len(encoded)
    /\ Len(decoder.points) = 1

====
